---- MODULE Spec2Model ----
(***************************************************************************)
(* puter-ai-cli: the agent control loop of src/agent.js (runAgentLoop,     *)
(* handleToolCall, askPermission, the response normalizers), the tool      *)
(* registry and executor of tools.js, and the two commands that drive the  *)
(* loop: `do` (agentCommand) and `code` (startAgentMode).                  *)
(*                                                                         *)
(* Text is a sequence of one-character strings, so that trim() and         *)
(* toLowerCase() are computed and not assumed.  A state of the loop is a   *)
(* point where the JavaScript code waits for real I/O (the model call, a   *)
(* file read, the answer of the human, the 5 s timer).                     *)
(***************************************************************************)
EXTENDS Integers, Sequences, FiniteSets, TLC

\* ------------------------------------------------------------------ bounds

\* Largest maxIterations a run is started with (the code's default is 25).
MaxIter == 2

\* Largest number of tool calls one model reply carries.
MaxCalls == 2

\* Largest maxIterations of a run whose replies carry at most one tool call.
MaxLongIter == 3

\* ------------------------------------------------------------------- text

\* String.prototype.toLowerCase on one character.
LowerChar(c) ==
    CASE c = "Y" -> "y"
      [] c = "E" -> "e"
      [] c = "S" -> "s"
      [] c = "N" -> "n"
      [] c = "O" -> "o"
      [] c = "K" -> "k"
      [] c = "I" -> "i"
      [] c = "P" -> "p"
      [] OTHER -> c

toLowerCase(s) == [i \in 1..Len(s) |-> LowerChar(s[i])]

IsSpace(c) == c \in {" ", "\t", "\n"}

RECURSIVE trimStart(_)
trimStart(s) ==
    IF s # <<>> /\ IsSpace(Head(s)) THEN trimStart(Tail(s)) ELSE s

RECURSIVE trimEnd(_)
trimEnd(s) ==
    IF s # <<>> /\ IsSpace(s[Len(s)]) THEN trimEnd(SubSeq(s, 1, Len(s) - 1)) ELSE s

\* String.prototype.trim
trim(s) == trimEnd(trimStart(s))

\* Array.prototype.join('') of a list of texts.
RECURSIVE join(_)
join(texts) ==
    IF texts = <<>> THEN <<>> ELSE Head(texts) \o join(Tail(texts))


\* ------------------------------------------------- messages and JSON values

\* A JavaScript value used as tool arguments, by what the code can observe of
\* it: "full" is an object with every parameter of its tool, "empty" is {},
\* "null" is null.
ArgValues == {"full", "empty", "null"}

\* An argument payload as the provider sends it: a JSON text (enc = "string";
\* val = "bad" is a text that is not JSON), an object (enc = "object"), or
\* nothing (enc = "absent").
Payload(enc, val) == [enc |-> enc, val |-> val]

\* JSON.parse throws a SyntaxError on a text that is not JSON.
JSONparseThrows(p) == p.val = "bad"

\* JSON.parse of a JSON text.
JSONparse(p) == p.val

\* JSON.stringify of a parsed value.
JSONstringify(v) == Payload("string", v)

\* typeof x === 'string' ? JSON.parse(x) : (x || {})
ParseArguments(p) ==
    IF p.enc = "string" THEN JSONparse(p)
    ELSE IF p.enc = "object" /\ p.val = "full" THEN "full"
    ELSE "empty"

ParseArgumentsThrows(p) == p.enc = "string" /\ JSONparseThrows(p)

\* One element of message.tool_calls: {id, function: {name, arguments}}.
ToolCallEntry(id, name, p) == [id |-> id, name |-> name, arguments |-> p]

\* One element of a content array.  type = "null" is an element that is not an
\* object (reading .type of it throws a TypeError).
TextBlock(t) == [type |-> "text", text |-> t, id |-> "", name |-> "", input |-> Payload("absent", "empty")]
ToolUseBlock(id, name, p) == [type |-> "tool_use", text |-> <<>>, id |-> id, name |-> name, input |-> p]
OtherBlock == [type |-> "image", text |-> <<>>, id |-> "", name |-> "", input |-> Payload("absent", "empty")]
NullBlock == [type |-> "null", text |-> <<>>, id |-> "", name |-> "", input |-> Payload("absent", "empty")]

\* message.content: a string, an array of blocks, or null.
StringContent(t) == [kind |-> "string", text |-> t, blocks |-> <<>>]
ArrayContent(bs) == [kind |-> "array", text |-> <<>>, blocks |-> bs]
NullContent == [kind |-> "null", text |-> <<>>, blocks |-> <<>>]

\* message.tool_calls: absent, or an array.
NoToolCalls == [present |-> FALSE, list |-> <<>>]
ToolCallsArray(l) == [present |-> TRUE, list |-> l]

\* A turn of the history, and a message of the provider.
Turn(role, content, tcs, tcid) ==
    [role |-> role, content |-> content, tool_calls |-> tcs, tool_call_id |-> tcid]

\* content.filter(c => c.type === 'text').map(c => c.text)
RECURSIVE textsOf(_)
textsOf(blocks) ==
    IF blocks = <<>> THEN <<>>
    ELSE (IF Head(blocks).type = "text" THEN <<Head(blocks).text>> ELSE <<>>)
         \o textsOf(Tail(blocks))

\* Reading .type of an element that is not an object throws.
HasNullBlock(blocks) == \E i \in 1..Len(blocks) : blocks[i].type = "null"

\* extractText(response), for a response {message}.
extractText(message) ==
    IF message.content.kind = "string" /\ message.content.text # <<>>
    THEN message.content.text
    ELSE IF message.content.kind = "array"
              /\ Len(textsOf(message.content.blocks)) > 0
    THEN join(textsOf(message.content.blocks))
    ELSE <<>>

extractTextThrows(message) ==
    message.content.kind = "array" /\ HasNullBlock(message.content.blocks)

\* A normalized tool call {id, name, args}.
ToolCall(id, name, args) == [id |-> id, name |-> name, args |-> args]

\* The OpenAI branch of normalizeToolCalls.
callsOfEntries(entries) ==
    [i \in 1..Len(entries) |->
        ToolCall(entries[i].id, entries[i].name, ParseArguments(entries[i].arguments))]

\* The Anthropic branch of normalizeToolCalls.
RECURSIVE callsOfBlocks(_)
callsOfBlocks(blocks) ==
    IF blocks = <<>> THEN <<>>
    ELSE (IF Head(blocks).type = "tool_use"
          THEN <<ToolCall(Head(blocks).id, Head(blocks).name,
                          ParseArguments(Head(blocks).input))>>
          ELSE <<>>)
         \o callsOfBlocks(Tail(blocks))

\* A test that never takes the OpenAI branch.
HasOpenAICallsNever(message) == FALSE

\* message.tool_calls && Array.isArray(message.tool_calls) && length > 0
HasOpenAICalls(message) ==
    message.tool_calls.present /\ Len(message.tool_calls.list) > 0

normalizeToolCalls(message) ==
    IF HasOpenAICalls(message) THEN callsOfEntries(message.tool_calls.list)
    ELSE IF message.content.kind = "array" THEN callsOfBlocks(message.content.blocks)
    ELSE <<>>

\* The inputs on which normalizeToolCalls throws instead of returning.
normalizeToolCallsThrows(message) ==
    IF HasOpenAICalls(message)
    THEN \E i \in 1..Len(message.tool_calls.list) :
            ParseArgumentsThrows(message.tool_calls.list[i].arguments)
    ELSE /\ message.content.kind = "array"
         /\ \E i \in 1..Len(message.content.blocks) :
              \/ message.content.blocks[i].type = "null"
              \/ /\ message.content.blocks[i].type = "tool_use"
                 /\ ParseArgumentsThrows(message.content.blocks[i].input)

\* toolCalls.map(tc => ({id, type: 'function', function: {name, arguments: JSON.stringify(tc.args)}}))
entriesOfCalls(toolCalls) ==
    [i \in 1..Len(toolCalls) |->
        ToolCallEntry(toolCalls[i].id, toolCalls[i].name, JSONstringify(toolCalls[i].args))]

normalizeAssistantMessage(message, toolCalls) ==
    IF message.tool_calls.present THEN message
    ELSE IF Len(toolCalls) > 0
    THEN Turn("assistant",
              IF message.content.kind = "array"
              THEN (IF Len(textsOf(message.content.blocks)) > 0
                    THEN StringContent(join(textsOf(message.content.blocks)))
                    ELSE NullContent)
              ELSE IF message.content.kind = "string" THEN message.content
              ELSE NullContent,
              ToolCallsArray(entriesOfCalls(toolCalls)), "")
    ELSE IF message.content.kind = "array"
    THEN Turn("assistant", StringContent(join(textsOf(message.content.blocks))),
              NoToolCalls, "")
    ELSE message

\* ------------------------------------------------------- the tool registry

\* TOOL_RISK: the static risk tag of each registered tool.
TOOL_RISK ==
    [ read_file |-> "safe", list_directory |-> "safe", search_files |-> "safe",
      get_project_info |-> "safe", write_file |-> "ask", edit_file |-> "ask",
      run_command |-> "danger" ]

RegisteredTools == DOMAIN TOOL_RISK

\* Names that TOOL_RISK[name] finds on Object.prototype: the lookup yields a
\* function, which is truthy and is neither 'safe' nor 'danger'.
InheritedNames == {"constructor", "toString"}

\* const risk = TOOL_RISK[name] || 'ask'
\* A lookup that takes every name outside the registry for a read-only tool.
RiskLookupDefaultSafe(name) ==
    IF name \in RegisteredTools THEN TOOL_RISK[name] ELSE "safe"

RiskLookup(name) ==
    IF name \in RegisteredTools THEN TOOL_RISK[name]
    ELSE IF name \in InheritedNames THEN "[Function]"
    ELSE "ask"

\* A gate that asks for dangerous tools only.
NeedsPermissionDangerOnly(risk, auto) == risk = "danger" /\ ~auto

\* A gate that does not look at autoApprove.
NeedsPermissionWhateverAuto(risk, auto) == risk # "safe"

\* if (risk !== 'safe' && !autoApprove)
NeedsPermission(risk, auto) == risk # "safe" /\ ~auto

\* risk === 'danger' ? '[DANGER]' : '[WRITE]'
riskLabel(risk) == IF risk = "danger" THEN "[DANGER]" ELSE "[WRITE]"

\* ------------------------------------------------------- the tool executor

\* The project file every tool call of a run addresses: absent, or holding the
\* text "old" or the text "new".
FsStates == {"absent", "old", "new"}

\* What one call of executeTool can do: return `result` (a text, as a list of
\* its pieces) and leave the file as `fs`, or reject (throws).
Outcome(throws, result, f) == [throws |-> throws, result |-> result, fs |-> f]

\* path.resolve(projectDir, args.path) throws a TypeError when args.path is
\* undefined, before the try block of the implementation is entered.
PathResolveThrows(args) == args # "full"

readFileImpl(args, f) ==
    IF PathResolveThrows(args) THEN {Outcome(TRUE, <<"TypeError">>, f)}
    ELSE IF f = "absent" THEN {Outcome(FALSE, <<"Error reading file: ", "ENOENT">>, f)}
    ELSE {Outcome(FALSE, <<"[1 lines]\n", f>>, f)}

writeFileImpl(args, f) ==
    IF PathResolveThrows(args) THEN {Outcome(TRUE, <<"TypeError">>, f)}
    ELSE {Outcome(FALSE, <<"File written successfully: ", "path">>, "new")}

\* The call {target: "old", replacement: "new"}.
editFileImpl(args, f) ==
    IF PathResolveThrows(args) THEN {Outcome(TRUE, <<"TypeError">>, f)}
    ELSE IF f = "absent" THEN {Outcome(FALSE, <<"Error editing file: ", "ENOENT">>, f)}
    ELSE IF f # "old"
    THEN {Outcome(FALSE, <<"Error: Target string not found in ", "path">>, f)}
    ELSE {Outcome(FALSE, <<"File edited successfully: ", "path">>, "new")}

\* execSync of the shell command of the call, which removes the file: it
\* succeeds, or exits non-zero and leaves the file; without a command string
\* execSync throws inside the try block.
runCommandImpl(args, f) ==
    IF args # "full" THEN {Outcome(FALSE, <<"Command exited with code ", "1">>, f)}
    ELSE {Outcome(FALSE, <<"(command completed with no output)">>, "absent"),
          Outcome(FALSE, <<"Command exited with code ", "1">>, f)}

\* list_directory, search_files and get_project_info only read.
readOnlyImpl(name, f) == {Outcome(FALSE, <<"(", name, " output)">>, f)}

executeTool(name, args, f) ==
    CASE name = "read_file" -> readFileImpl(args, f)
      [] name = "write_file" -> writeFileImpl(args, f)
      [] name = "edit_file" -> editFileImpl(args, f)
      [] name = "list_directory" -> readOnlyImpl(name, f)
      [] name = "search_files" -> readOnlyImpl(name, f)
      [] name = "run_command" -> runCommandImpl(args, f)
      [] name = "get_project_info" -> readOnlyImpl(name, f)
      [] OTHER -> {Outcome(FALSE, <<"Unknown tool: ", name>>, f)}

\* ------------------------------------------------------ the permission gate

\* The display code at the head of handleToolCall reads a property of args
\* for these tools, which throws when args is null.
DisplayReadsArgs(name) ==
    name \in {"run_command", "write_file", "edit_file", "read_file",
              "list_directory", "search_files"}

DisplayThrows(name, args) == DisplayReadsArgs(name) /\ args = "null"

\* An answer that is trimmed and not lower-cased.
NormalizeAnswerNoLowerCase(raw) == trim(raw)

\* askPermission resolves with answer.toLowerCase().trim().
NormalizeAnswer(raw) == trim(toLowerCase(raw))

Denied == <<"Operation denied by user.">>
Skipped == <<"Operation skipped by user.">>

\* The decision handleToolCall takes on the normalized answer.
Decision(answer) ==
    IF answer = <<"n">> \/ answer = <<"n", "o">> THEN "DENIED"
    ELSE IF answer = <<"s", "k", "i", "p">> \/ answer = <<"s">> THEN "SKIPPED"
    ELSE "ALLOWED"

\* ------------------------------------------------------------ the provider

\* The tool calls the stub provider draws its replies from.
Catalogue ==
    << [name |-> "read_file", arguments |-> Payload("string", "full")],
       [name |-> "write_file", arguments |-> Payload("string", "full")],
       [name |-> "run_command", arguments |-> Payload("object", "full")],
       [name |-> "frobnicate", arguments |-> Payload("string", "null")],
       [name |-> "read_file", arguments |-> Payload("string", "null")],
       [name |-> "write_file", arguments |-> Payload("object", "empty")],
       [name |-> "constructor", arguments |-> Payload("string", "full")] >>

CallIds == <<"call_1", "call_2", "call_3", "call_4">>

\* k calls, taken from the catalogue in order from `start` on.
CatalogueAt(start, i) == Catalogue[((start + i - 2) % Len(Catalogue)) + 1]

OpenAIReply(start, k) ==
    Turn("assistant", NullContent,
         ToolCallsArray([i \in 1..k |->
             ToolCallEntry(CallIds[i], CatalogueAt(start, i).name,
                           CatalogueAt(start, i).arguments)]), "")

AnthropicReply(start, k) ==
    Turn("assistant",
         ArrayContent(<<TextBlock(<<"A">>)>> \o
             [i \in 1..k |->
                 ToolUseBlock(CallIds[i], CatalogueAt(start, i).name,
                              CatalogueAt(start, i).arguments)]),
         NoToolCalls, "")

\* The catalogue positions at which the replies with several calls start.
MultiStarts == {1, 2, 4}

\* Replies that request tool calls: every catalogue entry alone, and runs of
\* 2..MaxCalls entries; odd catalogue positions in the OpenAI shape, even
\* ones in the Anthropic shape.
SingleCallReplies ==
    { IF start % 2 = 1 THEN OpenAIReply(start, 1) ELSE AnthropicReply(start, 1) :
        start \in 1..Len(Catalogue) }

ToolReplies ==
    SingleCallReplies
    \cup
    { IF start % 2 = 1 THEN OpenAIReply(start, k) ELSE AnthropicReply(start, k) :
        start \in MultiStarts, k \in 2..MaxCalls }

FinalTexts == { <<" ">>, <<"A">>, <<"B">> }

\* Replies that request no tool call.
TextReplies ==
    { Turn("assistant", StringContent(t), NoToolCalls, "") : t \in FinalTexts }
    \cup { Turn("assistant",
                ArrayContent(<<TextBlock(<<"A">>), OtherBlock, TextBlock(<<"B">>)>>),
                NoToolCalls, "") }

\* Replies of a shape the normalizers throw on.
MalformedReplies ==
    { Turn("assistant", NullContent,
           ToolCallsArray(<<ToolCallEntry("call_1", "read_file", Payload("string", "bad"))>>), ""),
      Turn("assistant", ArrayContent(<<TextBlock(<<"A">>), NullBlock>>), NoToolCalls, "") }

StubReplies == ToolReplies \cup TextReplies \cup MalformedReplies

\* The replies of the provider in the longer runs.
LongRunReplies == SingleCallReplies \cup TextReplies \cup MalformedReplies

\* Messages of the errors a model call fails with, as lists of their pieces.
ErrorMessages ==
    { <<"rate limit", " exceeded">>, <<"HTTP ", "429">>, <<"fetch failed">> }

\* errMsg.includes(piece)
includes(msg, piece) == \E i \in 1..Len(msg) : msg[i] = piece

\* A loop that takes every error for a rate limit.
IsRateLimitAlways(errMsg) == TRUE

\* errMsg && (errMsg.includes('rate limit') || errMsg.includes('429'))
IsRateLimit(errMsg) == includes(errMsg, "rate limit") \/ includes(errMsg, "429")

\* The answers the human types at the permission prompt.
RawAnswers ==
    { <<>>, <<"Y">>, <<" ", "y", "e", "s">>,
      <<"n">>, <<"N", "o", " ">>,
      <<"S">>, <<" ", "s", "k", "i", "p", "\n">>,
      <<"n", "o", "p", "e">>, <<"s", " ", "k">> }

\* ------------------------------------------------------------------ state

VARIABLES
    stubRest,        \* the provider: {} until its second reply, then {the reply it repeats}
    globalRl,        \* TRUE when the REPL of startAgentMode exists (globalRl !== null)
    rlPaused,        \* the REPL has been paused and not resumed
    isAgentRunning,  \* the module flag of agent.js
    messages,        \* the conversation history
    pc,              \* where runAgentLoop is: "start", "model", "tools", "backoff", "done"
    iterations,      \* the loop counter
    maxIterations,   \* parameter of runAgentLoop
    autoApprove,     \* parameter of runAgentLoop
    toolCalls,       \* the normalized tool calls of the reply being handled
    stage,           \* per tool call: "new", "prompt", "exec", "done"
    fs,              \* the project file
    decision,        \* observation, per tool call: "none", "ALLOWED", "DENIED", "SKIPPED"
    asked,           \* observation, per tool call: permission questions asked
    invoked,         \* observation, per tool call: calls of executeTool
    pushed,          \* observation: tool_call_ids of the tool turns pushed for this reply
    modelCalls,      \* observation: calls of puter.ai.chat in this run
    execCount,       \* observation: calls of executeTool in this run
    toolTurns,       \* observation: tool turns pushed in this run
    finalPrints,     \* observation: the texts printed as "AI >"
    replyLog,        \* observation: per handled reply, what it carried
    warned,          \* observation: the max-iterations warning was printed
    loopPrompts,     \* observation: calls of rl.prompt() by the finally block of the task branch
    optionsAuto,     \* options.auto of startAgentMode, toggled by /auto
    currentModel,    \* currentModel of startAgentMode, set by /model
    loopModel,       \* modelName parameter of the runAgentLoop invocation
    shellPending,    \* line handlers suspended at await import('child_process')
    linesHandled,    \* lines the REPL has handled in this session
    probe            \* one direct call of a function of the program: its
                     \* input, and its result once it has returned

repl == <<optionsAuto, currentModel, loopModel, shellPending, linesHandled>>
params == <<globalRl, maxIterations, autoApprove, repl, probe>>
ctrl == <<pc, iterations, modelCalls, warned, isAgentRunning, loopPrompts>>
callState == <<toolCalls, stage, decision, asked, invoked, pushed>>
prompt == <<rlPaused>>
counters == <<execCount, toolTurns, finalPrints, replyLog>>
vars == <<params, ctrl, callState, prompt, counters, messages, fs, stubRest>>

\* buildSystemPrompt(projectDir), as one piece of text.
SystemTurn == Turn("system", StringContent(<<"system prompt">>), NoToolCalls, "")

UserTurn == Turn("user", StringContent(<<"task">>), NoToolCalls, "")

ToolTurn(id, result) == Turn("tool", StringContent(result), NoToolCalls, id)

\* No function is called directly: the program runs as a whole.
NoProbe == [fn |-> "none", in |-> <<>>, out |-> <<>>, done |-> FALSE]

\* The state when agentCommand (globalRl null) or startAgentMode (globalRl set)
\* has built the history and no task has been handed to the loop yet.
InitWith(maxes) ==
    /\ stubRest = {}
    /\ globalRl \in BOOLEAN
    /\ maxIterations \in maxes
    /\ autoApprove \in BOOLEAN
    /\ fs = "old"
    /\ rlPaused = FALSE
    /\ isAgentRunning = FALSE
    /\ messages = <<SystemTurn>>
    /\ pc = "start"
    /\ iterations = 0
    /\ toolCalls = <<>>
    /\ stage = <<>>
    /\ decision = <<>>
    /\ asked = <<>>
    /\ invoked = <<>>
    /\ pushed = <<>>
    /\ modelCalls = 0
    /\ execCount = 0
    /\ toolTurns = 0
    /\ finalPrints = <<>>
    /\ replyLog = <<>>
    /\ warned = FALSE
    /\ loopPrompts = 0
    /\ optionsAuto = autoApprove
    /\ currentModel = "claude-sonnet-4.6"
    /\ loopModel = currentModel
    /\ shellPending = 0
    /\ linesHandled = 0

\* --------------------------------------------------------- runAgentLoop

\* A loop that runs once more than its cap.
LoopConditionOffByOne(i, max) == i <= max

\* while (iterations < maxIterations)
LoopCondition(i, max) == i < max

\* if (iterations >= maxIterations) after the loop
WarnCondition(i, max) == i >= max

\* finally { isAgentRunning = false; rl.prompt(); } of the task branch, which
\* only the REPL has.
TaskFinally ==
    /\ isAgentRunning' = FALSE
    /\ loopPrompts' = IF globalRl THEN loopPrompts + 1 ELSE loopPrompts

\* A task branch that prompts again and leaves the flag as it is.
LoopReturnKeepsFlag ==
    /\ pc' = "done"
    /\ warned' = WarnCondition(iterations, maxIterations)
    /\ loopPrompts' = IF globalRl THEN loopPrompts + 1 ELSE loopPrompts
    /\ UNCHANGED <<iterations, modelCalls, isAgentRunning>>

\* The code after the while loop, and the finally block of the line handler.
LoopReturn ==
    /\ pc' = "done"
    /\ warned' = WarnCondition(iterations, maxIterations)
    /\ TaskFinally
    /\ UNCHANGED <<iterations, modelCalls>>

\* The head of the while loop: either the next iteration starts and calls the
\* model, or the loop is left.
WhileTest ==
    IF LoopCondition(iterations, maxIterations)
    THEN /\ iterations' = iterations + 1
         /\ modelCalls' = modelCalls + 1
         /\ pc' = "model"
         /\ UNCHANGED <<warned, isAgentRunning, loopPrompts>>
    ELSE LoopReturn

\* What the loop does after a reply without tool calls has been handled: the
\* code has no break or return there, so control reaches the end of the loop
\* body and the while test.
AfterFinalAnswer == WhileTest

\* agentCommand, or the task branch of the line handler: the user turn is
\* pushed and runAgentLoop runs up to its first model call.
SubmitTask ==
    /\ pc = "start"
    /\ ~isAgentRunning
    /\ messages' = Append(messages, UserTurn)
    /\ IF LoopCondition(iterations, maxIterations)
       THEN /\ iterations' = iterations + 1
            /\ modelCalls' = modelCalls + 1
            /\ pc' = "model"
            /\ isAgentRunning' = globalRl
            /\ UNCHANGED <<warned, loopPrompts>>
       ELSE LoopReturn
    /\ UNCHANGED <<params, callState, prompt, counters, fs, stubRest>>

LogEntry(kind, calls, text) ==
    [kind |-> kind, n |-> Len(calls),
     name |-> IF Len(calls) > 0 THEN calls[1].name ELSE "",
     args |-> IF Len(calls) > 0 THEN calls[1].args ELSE "",
     text |-> text]

\* Replies the provider has delivered in this run.
Delivered == Len(SelectSeq(replyLog, LAMBDA e : e.kind \in {"calls", "final", "threw"}))

\* The stub provider gives any reply as its first and as its second reply,
\* and from then on the second again.
StubGives(message) == stubRest = {} \/ message \in stubRest

\* The model call returns `message`.
ModelReply(message) ==
    /\ pc = "model"
    /\ StubGives(message)
    /\ stubRest' = IF Delivered = 1 THEN {message} ELSE stubRest
    /\ IF normalizeToolCallsThrows(message) \/ extractTextThrows(message)
       THEN \* the catch block: the error is no rate limit, break
            /\ LoopReturn
            /\ replyLog' = Append(replyLog, LogEntry("threw", <<>>, <<>>))
            /\ UNCHANGED <<messages, callState, execCount, toolTurns, finalPrints>>
       ELSE LET calls == normalizeToolCalls(message)
                textParts == extractText(message)
            IN  /\ messages' = Append(messages, normalizeAssistantMessage(message, calls))
                /\ IF Len(calls) > 0
                   THEN /\ pc' = "tools"
                        /\ toolCalls' = calls
                        /\ stage' = [i \in 1..Len(calls) |-> "new"]
                        /\ decision' = [i \in 1..Len(calls) |-> "none"]
                        /\ asked' = [i \in 1..Len(calls) |-> 0]
                        /\ invoked' = [i \in 1..Len(calls) |-> 0]
                        /\ pushed' = <<>>
                        /\ replyLog' = Append(replyLog, LogEntry("calls", calls, textParts))
                        /\ UNCHANGED <<iterations, modelCalls, warned, isAgentRunning, loopPrompts,
                                     finalPrints>>
                   ELSE /\ finalPrints' = IF trim(textParts) # <<>>
                                          THEN Append(finalPrints, textParts)
                                          ELSE finalPrints
                        /\ replyLog' = Append(replyLog, LogEntry("final", calls, textParts))
                        /\ AfterFinalAnswer
                        /\ UNCHANGED callState
                /\ UNCHANGED <<execCount, toolTurns>>
    /\ UNCHANGED <<params, prompt, fs>>

\* The model call fails with an error whose message is errMsg.
ModelError(errMsg) ==
    /\ pc = "model"
    /\ IF IsRateLimit(errMsg)
       THEN /\ pc' = "backoff"
            /\ replyLog' = Append(replyLog, LogEntry("rate_limit", <<>>, <<>>))
            /\ UNCHANGED <<iterations, modelCalls, warned, isAgentRunning, loopPrompts>>
       ELSE /\ LoopReturn
            /\ replyLog' = Append(replyLog, LogEntry("error", <<>>, <<>>))
    /\ UNCHANGED <<params, callState, prompt, messages, fs, execCount, toolTurns, finalPrints, stubRest>>

\* The model call fails with a value whose message is not a string (errMsg is
\* err.error.message, whatever it is): errMsg.includes is not a function, the
\* TypeError leaves the catch block, the loop and runAgentLoop, and the code
\* after the loop is not reached.  The finally block of the task branch runs;
\* the promise of the line handler is then rejected with nobody to handle it,
\* and the runtime either goes on (survives) or ends the process.
ModelErrorEscapes(survives) ==
    /\ globalRl
    /\ pc = "model"
    /\ pc' = IF survives THEN "done" ELSE "exited"
    /\ TaskFinally
    /\ replyLog' = Append(replyLog, LogEntry("escaped", <<>>, <<>>))
    /\ UNCHANGED <<params, iterations, modelCalls, warned, callState, prompt, messages, fs,
                   execCount, toolTurns, finalPrints, stubRest>>

\* The 5 s timer fires: continue.
BackoffOver ==
    /\ pc = "backoff"
    /\ WhileTest
    /\ UNCHANGED <<params, callState, prompt, counters, messages, fs, stubRest>>

\* --------------------------------------------------------- handleToolCall

\* Tool calls handled in any order, several at a time.
MayDispatchUnordered(i) == stage[i] = "new"

\* for (const tc of toolCalls) { await handleToolCall(tc, ...) }: call i is
\* handled when every call before it has been handled to its end.
MayDispatch(i) ==
    /\ stage[i] = "new"
    /\ \A j \in 1..(i - 1) : stage[j] = "done"

\* A for loop that is left after the first handled call.
AllHandledAfterFirst(st) == \E j \in DOMAIN st : st[j] = "done"

\* The for loop over the tool calls has ended.
AllHandled(st) == \A j \in DOMAIN st : st[j] = "done"

\* handleToolCall has returned `result` for call i: the loop pushes the tool
\* turn, and after the last call continues with the next iteration.
Complete(i, result) ==
    /\ messages' = Append(messages, ToolTurn(toolCalls[i].id, result))
    /\ pushed' = Append(pushed, toolCalls[i].id)
    /\ toolTurns' = toolTurns + 1
    /\ stage' = [stage EXCEPT ![i] = "done"]
    /\ IF AllHandled(stage') THEN WhileTest ELSE UNCHANGED ctrl
    /\ UNCHANGED <<toolCalls, finalPrints, replyLog>>

\* (await executeTool(...)) is entered for call i.
Invoke(i) ==
    /\ stage' = [stage EXCEPT ![i] = "exec"]
    /\ invoked' = [invoked EXCEPT ![i] = @ + 1]
    /\ execCount' = execCount + 1
    /\ UNCHANGED <<ctrl, messages, toolCalls, pushed, toolTurns, finalPrints, replyLog>>

\* handleToolCall starts for call i: the display, then the permission check.
Dispatch(i) ==
    /\ pc = "tools"
    /\ i \in DOMAIN toolCalls
    /\ MayDispatch(i)
    /\ LET name == toolCalls[i].name
           args == toolCalls[i].args
           risk == RiskLookup(name)
       IN  IF DisplayThrows(name, args)
           THEN /\ Complete(i, <<"Error executing tool: ", "TypeError">>)
                /\ UNCHANGED <<execCount, invoked, asked, rlPaused>>
           ELSE IF NeedsPermission(risk, autoApprove)
           THEN \* the preview of write_file and edit_file only reads and
                \* prints for the argument values of this model; then
                \* askPermission pauses the REPL
                /\ stage' = [stage EXCEPT ![i] = "prompt"]
                /\ asked' = [asked EXCEPT ![i] = @ + 1]
                /\ rlPaused' = (globalRl \/ rlPaused)
                /\ UNCHANGED <<ctrl, messages, toolCalls, pushed, invoked, counters>>
           ELSE /\ Invoke(i)
                /\ UNCHANGED <<asked, rlPaused>>
    /\ UNCHANGED <<params, decision, fs, stubRest>>

\* A gate that runs the tool although the human said no.
AnswerRunsDenied(i, raw) ==
    /\ pc = "tools"
    /\ i \in DOMAIN toolCalls
    /\ stage[i] = "prompt"
    /\ rlPaused' = FALSE
    /\ decision' = [decision EXCEPT ![i] = Decision(NormalizeAnswer(raw))]
    /\ IF decision'[i] = "SKIPPED"
       THEN Complete(i, Skipped) /\ UNCHANGED <<invoked, execCount>>
       ELSE Invoke(i)
    /\ UNCHANGED <<params, asked, fs, stubRest>>

\* The human answers the question of call i with the line `raw`: the inner
\* readline is closed, the REPL is resumed, askPermission resolves with the
\* normalized answer and handleToolCall acts on it.
Answer(i, raw) ==
    /\ pc = "tools"
    /\ i \in DOMAIN toolCalls
    /\ stage[i] = "prompt"
    /\ rlPaused' = FALSE
    /\ decision' = [decision EXCEPT ![i] = Decision(NormalizeAnswer(raw))]
    /\ IF decision'[i] = "DENIED"
       THEN Complete(i, Denied) /\ UNCHANGED <<invoked, execCount>>
       ELSE IF decision'[i] = "SKIPPED"
       THEN Complete(i, Skipped) /\ UNCHANGED <<invoked, execCount>>
       ELSE Invoke(i)
    /\ UNCHANGED <<params, asked, fs, stubRest>>

\* executeTool settles for call i with outcome o; a rejection is caught by
\* handleToolCall and turned into text.
Settle(i, o) ==
    /\ pc = "tools"
    /\ i \in DOMAIN toolCalls
    /\ stage[i] = "exec"
    /\ fs' = o.fs
    /\ Complete(i, IF o.throws THEN <<"Error executing tool: ">> \o o.result
                   ELSE IF o.result = <<>> THEN <<"(no output)">> ELSE o.result)
    /\ UNCHANGED <<params, decision, asked, invoked, execCount, prompt, stubRest>>

Init == InitWith(1..MaxIter) /\ probe = NoProbe

Next ==
    \/ SubmitTask
    \/ \E m \in StubReplies : ModelReply(m)
    \/ \E e \in ErrorMessages : ModelError(e)
    \/ BackoffOver
    \/ \E i \in DOMAIN toolCalls : Dispatch(i)
    \/ \E i \in DOMAIN toolCalls, raw \in RawAnswers : Answer(i, raw)
    \/ \E i \in DOMAIN toolCalls :
          \E o \in executeTool(toolCalls[i].name, toolCalls[i].args, fs) : Settle(i, o)

Spec == Init /\ [][Next]_vars

\* The longer runs: maxIterations up to MaxLongIter, at most one tool call a reply.
InitLong == InitWith(1..MaxLongIter) /\ probe = NoProbe

NextLong ==
    \/ SubmitTask
    \/ \E m \in LongRunReplies : ModelReply(m)
    \/ \E e \in ErrorMessages : ModelError(e)
    \/ BackoffOver
    \/ \E i \in DOMAIN toolCalls : Dispatch(i)
    \/ \E i \in DOMAIN toolCalls, raw \in RawAnswers : Answer(i, raw)
    \/ \E i \in DOMAIN toolCalls :
          \E o \in executeTool(toolCalls[i].name, toolCalls[i].args, fs) : Settle(i, o)

SpecLong == InitLong /\ [][NextLong]_vars

\* The longer runs under fair scheduling: a step that stays possible (the
\* provider answers, the timer fires, the human answers, a tool settles) is
\* eventually taken.
FairSpecLong == SpecLong /\ WF_vars(NextLong)

\* --------------------------------------------------------- startAgentMode

\* The iteration cap of a loop the REPL starts (runAgentLoop's default, 25 in
\* the code).
MaxReplIter == 1

\* Lines the REPL handles in one session.
MaxLines == 3

\* Model names /model switches to.
Models == {"gpt-4o"}

\* The replies of the provider in an interactive session: one write_file
\* call, or a final text.
ReplReplies ==
    { AnthropicReply(2, 1),
      Turn("assistant", StringContent(<<"A">>), NoToolCalls, "") }

\* The answers typed at the permission prompt in an interactive session.
ReplAnswers == { <<"Y">>, <<"n">> }

\* An agent session: startAgentMode has built the history, created the REPL
\* and shown its prompt (globalRl set), or agentCommand is about to hand its
\* task to the loop (globalRl null); the loop runs with the default cap.
InitRepl == InitWith({MaxReplIter}) /\ probe = NoProbe

\* A 'line' event reaches the handler of the REPL.  readline's pause() pauses
\* the input stream and does not detach the interface from it, and the
\* interface askPermission creates resumes the stream, so a line can reach the
\* handler whether or not the REPL has been paused.
ReplOpen ==
    /\ globalRl
    /\ pc # "exited"
    /\ linesHandled < MaxLines

\* rl.prompt(): shows the prompt and resumes the interface if it is paused.
rlPrompt == rlPaused' = FALSE

\* An empty line, /help, or "!" without a command: the handler only prompts.
PromptOnlyLine ==
    /\ ReplOpen
    /\ linesHandled' = linesHandled + 1
    /\ rlPrompt
    /\ UNCHANGED <<probe, globalRl, maxIterations, autoApprove, optionsAuto, currentModel,
                   loopModel, shellPending, ctrl, callState, counters, messages, fs,
                   stubRest>>

\* /quit, /exit, /q: process.exit(0).
QuitLine ==
    /\ ReplOpen
    /\ linesHandled' = linesHandled + 1
    /\ pc' = "exited"
    /\ UNCHANGED <<probe, globalRl, maxIterations, autoApprove, optionsAuto, currentModel,
                   loopModel, shellPending, iterations, modelCalls, warned,
                   isAgentRunning, loopPrompts, callState, prompt, counters, messages, fs, stubRest>>

\* A /clear that empties the history.
ClearLineDropsAll ==
    /\ ReplOpen
    /\ linesHandled' = linesHandled + 1
    /\ messages' = <<>>
    /\ rlPrompt
    /\ UNCHANGED <<probe, globalRl, maxIterations, autoApprove, optionsAuto, currentModel,
                   loopModel, shellPending, ctrl, callState, counters, fs, stubRest>>

\* /clear: messages.length = 1.
ClearLine ==
    /\ ReplOpen
    /\ linesHandled' = linesHandled + 1
    /\ messages' = SubSeq(messages, 1, 1)
    /\ rlPrompt
    /\ UNCHANGED <<probe, globalRl, maxIterations, autoApprove, optionsAuto, currentModel,
                   loopModel, shellPending, ctrl, callState, counters, fs, stubRest>>

\* /model <name>
ModelLine(name) ==
    /\ ReplOpen
    /\ linesHandled' = linesHandled + 1
    /\ currentModel' = name
    /\ rlPrompt
    /\ UNCHANGED <<probe, globalRl, maxIterations, autoApprove, optionsAuto, loopModel,
                   shellPending, ctrl, callState, counters, messages, fs, stubRest>>

\* A /auto that also reaches into the loop that is running.
AutoLineChangesLoop ==
    /\ ReplOpen
    /\ linesHandled' = linesHandled + 1
    /\ optionsAuto' = ~optionsAuto
    /\ autoApprove' = ~optionsAuto
    /\ rlPrompt
    /\ UNCHANGED <<probe, globalRl, maxIterations, currentModel, loopModel,
                   shellPending, ctrl, callState, counters, messages, fs, stubRest>>

\* /auto
AutoLine ==
    /\ ReplOpen
    /\ linesHandled' = linesHandled + 1
    /\ optionsAuto' = ~optionsAuto
    /\ rlPrompt
    /\ UNCHANGED <<probe, globalRl, maxIterations, autoApprove, currentModel, loopModel,
                   shellPending, ctrl, callState, counters, messages, fs, stubRest>>

\* !<command>: the handler is suspended at await import('child_process').
ShellLine ==
    /\ ReplOpen
    /\ linesHandled' = linesHandled + 1
    /\ shellPending' = shellPending + 1
    /\ UNCHANGED <<probe, globalRl, maxIterations, autoApprove, optionsAuto, currentModel,
                   loopModel, ctrl, callState, prompt, counters, messages, fs, stubRest>>

\* The suspended handler goes on: execSync of the command (one that only
\* reads, such as git status), then rl.prompt().
ShellDone ==
    /\ globalRl
    /\ pc # "exited"
    /\ shellPending > 0
    /\ shellPending' = shellPending - 1
    /\ rlPrompt
    /\ UNCHANGED <<probe, globalRl, maxIterations, autoApprove, optionsAuto, currentModel,
                   loopModel, linesHandled, ctrl, callState, counters, messages, fs,
                   stubRest>>

\* A handler without the guard.
MayStartLoopAlways == TRUE

\* if (isAgentRunning) return;
MayStartLoop == ~isAgentRunning

\* Any other line, a task.  While a loop is running the handler returns;
\* otherwise it pushes the user turn, sets the flag and calls runAgentLoop with
\* the current model and options.auto, which runs up to its first model call.
TaskLine ==
    /\ ReplOpen
    /\ linesHandled' = linesHandled + 1
    /\ IF ~MayStartLoop
       THEN UNCHANGED <<autoApprove, loopModel, ctrl, callState, counters, messages,
                        stubRest>>
       ELSE /\ messages' = Append(messages, UserTurn)
            /\ autoApprove' = optionsAuto
            /\ loopModel' = currentModel
            /\ IF LoopCondition(0, maxIterations)
               THEN /\ iterations' = 1
                    /\ modelCalls' = 1
                    /\ pc' = "model"
                    /\ warned' = FALSE
                    /\ isAgentRunning' = TRUE
                    /\ UNCHANGED loopPrompts
               ELSE /\ iterations' = 0
                    /\ modelCalls' = 0
                    /\ pc' = "done"
                    /\ warned' = WarnCondition(0, maxIterations)
                    /\ TaskFinally
            /\ toolCalls' = <<>>
            /\ stage' = <<>>
            /\ decision' = <<>>
            /\ asked' = <<>>
            /\ invoked' = <<>>
            /\ pushed' = <<>>
            /\ execCount' = 0
            /\ toolTurns' = 0
            /\ finalPrints' = <<>>
            /\ replyLog' = <<>>
            /\ stubRest' = {}
    /\ UNCHANGED <<probe, globalRl, maxIterations, optionsAuto, currentModel, shellPending,
                   prompt, fs>>

NextRepl ==
    \/ ~globalRl /\ SubmitTask
    \/ TaskLine
    \/ PromptOnlyLine
    \/ QuitLine
    \/ ClearLine
    \/ \E name \in Models : ModelLine(name)
    \/ AutoLine
    \/ ShellLine
    \/ ShellDone
    \/ \E m \in ReplReplies : ModelReply(m)
    \/ \E e \in ErrorMessages : ModelError(e)
    \/ \E survives \in BOOLEAN : ModelErrorEscapes(survives)
    \/ BackoffOver
    \/ \E i \in DOMAIN toolCalls : Dispatch(i)
    \/ \E i \in DOMAIN toolCalls, raw \in ReplAnswers : Answer(i, raw)
    \/ \E i \in DOMAIN toolCalls :
          \E o \in executeTool(toolCalls[i].name, toolCalls[i].args, fs) : Settle(i, o)

SpecRepl == InitRepl /\ [][NextRepl]_vars

\* ------------------------------------------------------------------ claims

\* Every model call that has ended left one entry in replyLog, so the k-th
\* entry is the outcome of the k-th call.

\* The assistant turns without tool calls in the history.
FinalTurns ==
    Len(SelectSeq(messages,
            LAMBDA t : t.role = "assistant" /\ Len(normalizeToolCalls(t)) = 0))

\* C1: after a reply whose normalized tool-call list is empty the loop stops:
\* no model call is made after such a reply.
C1_NoModelCallAfterFinalAnswer ==
    \A k \in DOMAIN replyLog : replyLog[k].kind = "final" => modelCalls <= k

\* The run of C2: the first reply requests exactly one read_file call, every
\* later reply requests none and carries the same text, which is not blank.
C2_Scenario ==
    /\ Len(replyLog) >= 2
    /\ replyLog[1].kind = "calls"
    /\ replyLog[1].n = 1
    /\ replyLog[1].name = "read_file"
    /\ replyLog[1].args = "full"
    /\ \A k \in 2..Len(replyLog) :
          /\ replyLog[k].kind = "final"
          /\ replyLog[k].text = replyLog[2].text
    /\ trim(replyLog[2].text) # <<>>

\* C2: in that run the loop calls the Executor exactly once, appends exactly
\* one tool turn and exactly one assistant turn without tool calls, and prints
\* the final text exactly once.
C2_OneToolCallThenOneFinalAnswer ==
    (pc = "done" /\ C2_Scenario) =>
        /\ execCount = 1
        /\ toolTurns = 1
        /\ FinalTurns = 1
        /\ finalPrints = <<replyLog[2].text>>

\* The run of C3: every model call so far succeeded and requested a tool call.
C3_AlwaysRequestsTools ==
    \A k \in DOMAIN replyLog : replyLog[k].kind = "calls"

C3_Safety ==
    /\ modelCalls <= maxIterations
    /\ (pc = "done" /\ C3_AlwaysRequestsTools) =>
          (modelCalls = maxIterations /\ warned)

\* C3: for every maxIterations = N >= 1, a run against a model that always
\* succeeds and always requests a tool call ends after exactly N model calls
\* with the max-iterations warning; the run does end.
C3_ExactlyNModelCallsThenWarning == []C3_Safety /\ <>(pc = "done")

C3_Witness ==
    /\ pc = "done"
    /\ C3_AlwaysRequestsTools
    /\ maxIterations = MaxLongIter
    /\ modelCalls = MaxLongIter
    /\ warned

\* A tool call is past the gate: executeTool has been entered for it.
PastGate(i) == stage[i] = "exec" \/ invoked[i] > 0

\* C4: with auto-approve off, for every tool call whose risk is ask or danger
\* the Executor is not invoked until one permission question for that call
\* has been asked and answered, and only if the decision read is ALLOWED.
C4_NoExecutionBeforeAllowed ==
    ~autoApprove =>
        \A i \in DOMAIN toolCalls :
            (RiskLookup(toolCalls[i].name) \in {"ask", "danger"} /\ PastGate(i)) =>
                (asked[i] = 1 /\ decision[i] = "ALLOWED")

C4_Witness ==
    /\ ~autoApprove
    /\ \E i \in DOMAIN toolCalls :
          /\ toolCalls[i].name = "run_command"
          /\ RiskLookup(toolCalls[i].name) = "danger"
          /\ asked[i] = 1
          /\ decision[i] = "ALLOWED"
          /\ invoked[i] = 1

\* The calls the gate is not entered for.
C5_Bypassed(i) == autoApprove \/ RiskLookup(toolCalls[i].name) = "safe"

C6_Expected(raw) ==
    IF raw \in { <<>>, <<"Y">>, <<" ", "y", "e", "s">> } THEN "ALLOWED"
    ELSE IF raw \in { <<"n">>, <<"N", "o", " ">> } THEN "DENIED"
    ELSE IF raw \in { <<"S">>, <<" ", "s", "k", "i", "p", "\n">> } THEN "SKIPPED"
    ELSE "ALLOWED"

\* C6: the permission answer, lower-cased and trimmed, maps to one decision:
\* empty, y, yes give ALLOWED; n, no give DENIED; skip, s give SKIPPED; every
\* other answer gives ALLOWED, whatever its case and surrounding blanks.
C6_AnswerMapping ==
    [][\A i \in DOMAIN stage :
          stage[i] = "prompt" =>
              \A raw \in RawAnswers :
                  Answer(i, raw) => decision'[i] = C6_Expected(raw)]_vars

\* A question was answered with skip, and the next question with another
\* answer that let the tool run.
C6_Witness ==
    /\ Len(replyLog) = 2
    /\ replyLog[1].name = "run_command"
    /\ toolTurns = 1
    /\ execCount = 1
    /\ Len(toolCalls) = 1
    /\ asked[1] = 1
    /\ decision[1] = "ALLOWED"
    /\ stage[1] = "exec"

C7_Refused(d) == d \in {"DENIED", "SKIPPED"}

C7_State ==
    \A i \in DOMAIN toolCalls :
        C7_Refused(decision[i]) => (invoked[i] = 0 /\ stage[i] = "done")

C7_Step ==
    \A i \in {j \in DOMAIN stage : stage[j] = "prompt"}, raw \in RawAnswers :
        (Answer(i, raw) /\ C7_Refused(decision'[i])) =>
            /\ fs' = fs
            /\ invoked' = invoked
            /\ execCount' = execCount
            /\ messages' = Append(messages,
                   [role |-> "tool",
                    content |-> StringContent(
                        IF decision'[i] = "DENIED"
                        THEN <<"Operation denied by user.">>
                        ELSE <<"Operation skipped by user.">>),
                    tool_calls |-> NoToolCalls,
                    tool_call_id |-> toolCalls[i].id])

\* C7: when the decision for a tool call is DENIED or SKIPPED the Executor is
\* not invoked for that call, the step leaves the file system unchanged, and
\* the tool turn appended to the history for that call carries exactly
\* 'Operation denied by user.' or 'Operation skipped by user.'.
C7_RefusalShortCircuits == []C7_State /\ [][C7_Step]_vars

C7_Witness ==
    /\ pc = "model"
    /\ Len(toolCalls) = 1
    /\ toolCalls[1].name = "write_file"
    /\ decision[1] = "DENIED"
    /\ fs = "old"
    /\ messages[Len(messages)] = ToolTurn(toolCalls[1].id, Denied)

\* C8: a tool call whose name is not a registered tool is treated as risk
\* ask, never as safe: the gate and the label take it as they take ask, and
\* with auto-approve off one permission question is asked for it before
\* anything else is done for it, and the Executor is entered for it only after
\* the answer ALLOWED.
C8_UnknownToolAlwaysPrompts ==
    \A i \in DOMAIN toolCalls :
        toolCalls[i].name \notin RegisteredTools =>
            LET risk == RiskLookup(toolCalls[i].name)
            IN  /\ risk # "safe"
                /\ \A auto \in BOOLEAN :
                      NeedsPermission(risk, auto) = NeedsPermission("ask", auto)
                /\ riskLabel(risk) = riskLabel("ask")
                /\ ~autoApprove =>
                      /\ stage[i] # "new" => asked[i] = 1
                      /\ PastGate(i) => decision[i] = "ALLOWED"
                      /\ stage[i] \in {"new", "prompt"} => invoked[i] = 0

C8_Witness ==
    /\ ~autoApprove
    /\ \E i \in DOMAIN toolCalls :
          /\ toolCalls[i].name = "constructor"
          /\ asked[i] = 1
          /\ invoked[i] = 1
          /\ stage[i] = "done"
          /\ messages[Len(messages)] =
                 ToolTurn(toolCalls[i].id, <<"Unknown tool: ", "constructor">>)

\* The ids of the tool calls of the reply being handled, in the order issued.
C9_Ids == [i \in DOMAIN toolCalls |-> toolCalls[i].id]

\* The last n turns of the history are tool turns carrying the ids pushed for
\* this reply, in order, and the turn before them is the assistant turn that
\* carries the calls.
C9_Tail(n) ==
    /\ Len(messages) > n
    /\ \A j \in 1..n :
          LET t == messages[Len(messages) - n + j]
          IN  t.role = "tool" /\ t.tool_call_id = C9_Ids[j]
    /\ LET a == messages[Len(messages) - n]
       IN  a.role = "assistant" /\ normalizeToolCalls(a) = toolCalls

\* C9: for a reply carrying k >= 1 tool calls the loop appends exactly k tool
\* turns, one per call, in the order issued, each with its call's id, and all
\* k are in the history before the next model call is made, whatever the
\* outcome of each call.
C9_OneToolTurnPerCallInOrder ==
    /\ pushed = SubSeq(C9_Ids, 1, Len(pushed))
    /\ Len(pushed) = Cardinality({i \in DOMAIN stage : stage[i] = "done"})
    /\ pc = "tools" => (Len(pushed) < Len(toolCalls) /\ C9_Tail(Len(pushed)))
    /\ pc # "tools" => pushed = C9_Ids
    /\ (pc # "tools" /\ messages[Len(messages)].role = "tool") => C9_Tail(Len(toolCalls))

\* A reply with two calls: the first refused, the second failed with an
\* exception; the next model call is in flight.
C9_Witness ==
    /\ pc = "model"
    /\ Len(toolCalls) = 2
    /\ decision[1] = "DENIED"
    /\ messages[Len(messages)].role = "tool"
    /\ messages[Len(messages)].content = StringContent(<<"Error executing tool: ", "TypeError">>)
    /\ pushed = <<"call_1", "call_2">>

\* Model calls made and not yet ended: every call that ended left one entry
\* in replyLog.
C10_InFlight == modelCalls - Len(replyLog)

\* Tool calls being gated or executed.
C10_Active == {i \in DOMAIN stage : stage[i] \in {"prompt", "exec"}}

\* C10: within one agent loop at most one model call is in flight, none is in
\* flight while a tool call is gated or executed or still to be handled, each
\* tool call is prompted for and executed at most once, and call i+1 is
\* neither prompted for nor executed before call i has run to completion.
C10_StrictlySequential ==
    /\ C10_InFlight \in {0, 1}
    /\ C10_InFlight = 1 <=> pc = "model"
    /\ (\E i \in DOMAIN stage : stage[i] # "done") => (pc = "tools" /\ C10_InFlight = 0)
    /\ Cardinality(C10_Active) <= 1
    /\ \A i \in DOMAIN toolCalls :
          /\ invoked[i] <= 1
          /\ asked[i] <= 1
          /\ \A j \in DOMAIN toolCalls :
                (i < j /\ stage[i] # "done") =>
                    (stage[j] = "new" /\ asked[j] = 0 /\ invoked[j] = 0)

C10_Witness ==
    /\ pc = "tools"
    /\ Len(toolCalls) = 2
    /\ stage = <<"done", "exec">>
    /\ invoked = <<1, 1>>
    /\ asked = <<1, 1>>

\* ------------------------------------------- claims on the interactive session

\* C11: in every reachable history each tool turn references a tool-call id
\* that the nearest preceding assistant turn carries in its tool_calls, and
\* only tool turns lie between that assistant turn and the tool turn.
C11_ToolTurnsFollowTheirAssistantTurn ==
    \A k \in DOMAIN messages :
        messages[k].role = "tool" =>
            \E a \in 1..(k - 1) :
                /\ messages[a].role = "assistant"
                /\ \A j \in (a + 1)..(k - 1) : messages[j].role = "tool"
                /\ \E c \in DOMAIN messages[a].tool_calls.list :
                      messages[a].tool_calls.list[c].id = messages[k].tool_call_id

\* C12: in every reachable state of an agent session the history is not empty
\* and its first turn is the system turn, and a /clear step leaves exactly
\* that one system turn.
C12_State == Len(messages) >= 1 /\ messages[1] = SystemTurn

C12_SystemTurnFirst ==
    []C12_State /\ [][ClearLine => messages' = <<SystemTurn>>]_vars

\* /clear has been handled after a reply had been appended.
C12_Witness ==
    /\ globalRl
    /\ messages = <<SystemTurn>>
    /\ Len(replyLog) > 0
    /\ replyLog[1].kind = "calls"

\* C13: while a runAgentLoop invocation is active in interactive mode no line
\* handled by the REPL removes turns, so the history still holds the user turn
\* the run was started with.
C13_HistoryKeptDuringRun ==
    isAgentRunning =>
        /\ Len(messages) >= 2
        /\ messages[2] = UserTurn

C14_LoopActive == pc \in {"model", "tools", "backoff"}

C14_UserTurns(h) == Len(SelectSeq(h, LAMBDA t : t.role = "user"))

\* While the process lives (it has not been ended by /quit).
C14_State ==
    pc # "exited" =>
        /\ globalRl => (isAgentRunning <=> C14_LoopActive)
        /\ Cardinality({i \in DOMAIN stage : stage[i] = "prompt"}) <= 1
        /\ (\E i \in DOMAIN stage : stage[i] = "prompt") => C14_LoopActive

\* A step that appends a user turn or that starts a loop (the run's
\* observations start afresh) is the handling of one line while no loop is
\* active; while a loop is active its parameters and progress are kept.
C14_Step ==
    /\ C14_UserTurns(messages') > C14_UserTurns(messages) =>
          /\ ~C14_LoopActive
          /\ C14_UserTurns(messages') = C14_UserTurns(messages) + 1
          /\ globalRl => linesHandled' = linesHandled + 1
    /\ C14_LoopActive =>
          /\ modelCalls' >= modelCalls
          /\ iterations' >= iterations
          /\ Len(replyLog') >= Len(replyLog)
          /\ autoApprove' = autoApprove
          /\ loopModel' = loopModel

\* C14: in every reachable state of an interactive session at most one
\* runAgentLoop invocation is active and at most one permission question is
\* pending; a task line received while a loop is active starts no second loop
\* and appends no user turn, in that step or in any later one.
C14_OneLoopOneQuestion == []C14_State /\ [][C14_Step]_vars

\* A loop is waiting for the answer to its question and the REPL has handled
\* two more lines since the task.
C14_Witness ==
    /\ globalRl
    /\ isAgentRunning
    /\ stage = <<"prompt">>
    /\ linesHandled = 3
    /\ C14_UserTurns(messages) = 1

\* C15: in interactive mode the outer REPL is paused for as long as a
\* permission question is pending.
C15_ReplPausedWhileQuestionPending ==
    (globalRl /\ pc = "tools" /\ \E i \in DOMAIN stage : stage[i] = "prompt") => rlPaused

\* ------------------------------------------------- claims on failed model calls

C16_LastEntry == replyLog[Len(replyLog)]

\* C16: after a model call that failed with a rate-limit error the loop does
\* not stop: it is waiting for the backoff or has called the model again.
C16_RateLimitedCallIsRetried ==
    (Len(replyLog) > 0 /\ C16_LastEntry.kind = "rate_limit") =>
        pc \in {"backoff", "model"}

C17_Count(kind) == Len(SelectSeq(replyLog, LAMBDA e : e.kind = kind))

\* C17: rate-limited attempts do not count toward maxIterations: a run in
\* which every model call either was rate limited or requested a tool call
\* ends after maxIterations successful model calls.
C17_FailedAttemptsDoNotCount ==
    (pc = "done" /\ \A k \in DOMAIN replyLog : replyLog[k].kind \in {"calls", "rate_limit"}) =>
        C17_Count("calls") = maxIterations

\* The error messages that contain neither 'rate limit' nor '429'.
C18_TerminalErrors == { <<"fetch failed">> }

\* The history ends with a complete group: every turn after the last assistant
\* turn is a tool turn, and every tool call of that assistant turn has its
\* tool turn there.
C18_CompleteGroup(h) ==
    \A a \in DOMAIN h :
        (h[a].role = "assistant" /\ \A j \in (a + 1)..Len(h) : h[j].role # "assistant") =>
            /\ \A j \in (a + 1)..Len(h) : h[j].role = "tool"
            /\ \A c \in DOMAIN h[a].tool_calls.list :
                  \E j \in (a + 1)..Len(h) :
                      h[j].tool_call_id = h[a].tool_calls.list[c].id

C18_State ==
    /\ pc = "model" => C18_CompleteGroup(messages)
    /\ (Len(replyLog) > 0 /\ C16_LastEntry.kind = "error") =>
          (pc = "done" /\ C18_CompleteGroup(messages))

C18_Step ==
    /\ pc # "done"
    /\ \A e \in C18_TerminalErrors :
          ModelError(e) =>
              /\ pc' = "done"
              /\ messages' = messages
              /\ modelCalls' = modelCalls
              /\ execCount' = execCount
              /\ fs' = fs

\* C18: when a model call fails with an error that is not a rate limit the
\* loop ends with that step, which leaves the history as it was sent with the
\* failed call, a history that ends with a complete group; no step follows
\* the end of the loop, so no model call is made and no tool is executed.
C18_TerminalErrorLeavesHistory == []C18_State /\ [][C18_Step]_vars

\* The second model call failed after the tool call of the first reply had
\* been handled.
C18_Witness ==
    /\ pc = "done"
    /\ Len(replyLog) = 2
    /\ replyLog[1].kind = "calls"
    /\ replyLog[2].kind = "error"
    /\ messages[Len(messages)].role = "tool"
    /\ modelCalls = 2
    /\ maxIterations > 2

\* C19: a reply of malformed shape does not fail the turn: no reply makes the
\* normalizers throw into the catch block of the loop.
C19_MalformedReplyDoesNotAbort ==
    \A k \in DOMAIN replyLog : replyLog[k].kind # "threw"

\* The reply holds no tool-call structure of either shape.
C20_NoToolCallStructure(m) ==
    /\ ~(m.tool_calls.present /\ Len(m.tool_calls.list) > 0)
    /\ ~(m.content.kind = "array"
         /\ \E i \in DOMAIN m.content.blocks : m.content.blocks[i].type = "tool_use")

\* C20: on every reply the provider has given that holds no tool-call
\* structure of either shape, normalizeToolCalls returns the empty list and
\* does not throw.
C20_EmptyListWhenNoToolCalls ==
    \A m \in stubRest :
        C20_NoToolCallStructure(m) =>
            (~normalizeToolCallsThrows(m) /\ normalizeToolCalls(m) = <<>>)

\* ------------------------------------------ the normalizers, called directly

\* The longest content list of a reply handed to the normalizers.
MaxBlocks == 2

\* A direct call of `fn` on `input`, not yet made.
ProbeOf(fn, input) == [fn |-> fn, in |-> input, out |-> <<>>, done |-> FALSE]

\* The loop's variables for a session in which the loop does not matter: a
\* one-shot run with maxIterations 1 and auto-approve off.
InitIdle == InitWith({1}) /\ ~globalRl /\ ~autoApprove

\* The blocks of a content list.
NormalizeBlocks ==
    { TextBlock(<<"A">>), TextBlock(<<"B">>), OtherBlock,
      ToolUseBlock("call_1", "read_file", Payload("object", "full")),
      ToolUseBlock("call_2", "write_file", Payload("string", "empty")) }

RECURSIVE SeqsUpTo(_, _)
SeqsUpTo(S, n) ==
    IF n = 0 THEN {<<>>}
    ELSE LET shorter == SeqsUpTo(S, n - 1)
         IN  shorter \cup { Append(s, x) : s \in shorter, x \in S }

\* message.content of a reply: null, '', a text, or a list of blocks.
NormalizeContents ==
    {NullContent, StringContent(<<>>), StringContent(<<"A">>)}
        \cup { ArrayContent(bs) : bs \in SeqsUpTo(NormalizeBlocks, MaxBlocks) }

\* message.tool_calls of a reply: absent, [], or one or two entries whose
\* arguments are a JSON text or an object.
NormalizeToolCallLists ==
    { NoToolCalls,
      ToolCallsArray(<<>>),
      ToolCallsArray(<<ToolCallEntry("call_3", "edit_file", Payload("string", "full"))>>),
      ToolCallsArray(<<ToolCallEntry("call_3", "edit_file", Payload("string", "full")),
                       ToolCallEntry("call_4", "run_command", Payload("object", "full"))>>) }

\* response.message as runAgentLoop hands it to the normalizers.
NormalizeInputs ==
    { Turn("assistant", c, tcs, "") : c \in NormalizeContents, tcs \in NormalizeToolCallLists }

InitNormalize ==
    /\ InitIdle
    /\ \E m \in NormalizeInputs : probe = ProbeOf("normalizeAssistantMessage", m)

\* const toolCalls = normalizeToolCalls(message);
\* messages.push(normalizeAssistantMessage(message, toolCalls));
ApplyNormalize ==
    /\ probe.fn = "normalizeAssistantMessage"
    /\ ~probe.done
    /\ probe' = [probe EXCEPT
                    !.out = [calls |-> normalizeToolCalls(probe.in),
                             turn |-> normalizeAssistantMessage(probe.in,
                                          normalizeToolCalls(probe.in))],
                    !.done = TRUE]
    /\ UNCHANGED <<globalRl, maxIterations, autoApprove, repl, ctrl, callState,
                   prompt, counters, messages, fs, stubRest>>

\* The turn pushed to the history is read again: both normalizers are applied
\* to the result of normalizeAssistantMessage.
RereadNormalized ==
    /\ probe.fn = "normalizeAssistantMessage"
    /\ probe.done
    /\ DOMAIN probe.out = {"calls", "turn"}
    /\ probe' = [probe EXCEPT
                    !.out = [calls |-> probe.out.calls,
                             turn |-> probe.out.turn,
                             callsAgain |-> normalizeToolCalls(probe.out.turn),
                             turnAgain |-> normalizeAssistantMessage(probe.out.turn,
                                               normalizeToolCalls(probe.out.turn))]]
    /\ UNCHANGED <<globalRl, maxIterations, autoApprove, repl, ctrl, callState,
                   prompt, counters, messages, fs, stubRest>>

NextNormalize == ApplyNormalize \/ RereadNormalized

SpecNormalize == InitNormalize /\ [][NextNormalize]_vars

\* The normalizers have returned for a reply.
Normalized == probe.fn = "normalizeAssistantMessage" /\ probe.done

\* The <<id, name>> of each element of a list of tool calls or of entries.
IdsAndNames(l) == [i \in 1..Len(l) |-> <<l[i].id, l[i].name>>]

\* C21: the assistant turn normalizeAssistantMessage returns carries, in its
\* tool_calls list, exactly the tool calls normalizeToolCalls extracted from
\* the same reply: the same ids and names in the same order, whichever shape
\* the reply had.
C21_TurnCarriesExtractedCalls ==
    Normalized =>
        IdsAndNames(probe.out.turn.tool_calls.list) = IdsAndNames(probe.out.calls)

\* C22: the content of the assistant turn normalizeAssistantMessage returns
\* is a plain string: a string content is kept, a list of blocks becomes the
\* concatenation of its text blocks in order, with and without tool calls.
C22_ContentIsPlainString ==
    Normalized =>
        /\ probe.in.content.kind \in {"string", "array"} =>
              probe.out.turn.content.kind = "string"
        /\ probe.in.content.kind = "string" =>
              probe.out.turn.content.text = probe.in.content.text
        /\ probe.in.content.kind = "array" =>
              probe.out.turn.content.text = join(textsOf(probe.in.content.blocks))

\* ------------------------------------------------ executeTool, called directly

\* The names executeTool is called with: the registered tools and names that
\* no case of its switch matches.
ExecNames == RegisteredTools \cup {"frobnicate", "constructor", "toString"}

\* The argument mappings: every parameter of the tool, or none ({}).
ExecArgs == {"full", "empty"}

\* One call executeTool(name, args, projectDir) with the project file in
\* state fs.
ExecInputs == [name : ExecNames, args : ExecArgs, fs : FsStates]

InitExec ==
    /\ InitIdle
    /\ \E i \in ExecInputs : probe = ProbeOf("executeTool", i)

\* await executeTool(name, args, projectDir): the promise settles with one of
\* the outcomes of the implementation.
ApplyExecuteTool ==
    /\ probe.fn = "executeTool"
    /\ ~probe.done
    /\ \E o \in executeTool(probe.in.name, probe.in.args, probe.in.fs) :
          probe' = [probe EXCEPT !.out = o, !.done = TRUE]
    /\ UNCHANGED <<globalRl, maxIterations, autoApprove, repl, ctrl, callState,
                   prompt, counters, messages, fs, stubRest>>

SpecExec == InitExec /\ [][ApplyExecuteTool]_vars

\* C23: executeTool never throws or rejects: for every tool name, registered
\* or not, and every argument mapping, also one without a required argument
\* such as path, the call returns a text.
C23_ExecuteToolAlwaysReturnsText ==
    (probe.fn = "executeTool" /\ probe.done) => ~probe.out.throws

\* --------------------------------------------------- edit_file on file texts

\* The longest file text and the longest target of an edit.
MaxText == 3
MaxTarget == 2

\* The characters of the file texts.
EditChars == {"a", "b"}

\* A test that finds every target in every text.
includesTextAlways(content, target) == TRUE

\* String.prototype.includes: target occurs in content as a substring.
includesText(content, target) ==
    \E i \in 0..(Len(content) - Len(target)) :
        SubSeq(content, i + 1, i + Len(target)) = target

\* String.prototype.indexOf: the offset of the first occurrence.
indexOf(content, target) ==
    CHOOSE i \in 0..(Len(content) - Len(target)) :
        /\ SubSeq(content, i + 1, i + Len(target)) = target
        /\ \A j \in 0..(i - 1) : SubSeq(content, j + 1, j + Len(target)) # target

\* String.prototype.replace with a string as its pattern: only the first
\* occurrence is replaced; a text without the pattern is returned as it is.
replaceFirst(content, target, replacement) ==
    IF ~(\E i \in 0..(Len(content) - Len(target)) :
            SubSeq(content, i + 1, i + Len(target)) = target)
    THEN content
    ELSE LET i == indexOf(content, target)
         IN  SubSeq(content, 1, i) \o replacement
                 \o SubSeq(content, i + Len(target) + 1, Len(content))

\* What editFileImpl returns and does to the file: the kind of its text,
\* whether fs.writeFile was called, and the file's text afterwards.
EditOutcome(result, wrote, content) ==
    [result |-> result, wrote |-> wrote, content |-> content]

\* editFileImpl on a file that exists with text e.content, or does not exist.
editFileText(e) ==
    IF ~e.exists THEN EditOutcome("Error editing file: ", FALSE, e.content)
    ELSE IF ~includesText(e.content, e.target)
    THEN EditOutcome("Error: Target string not found in ", FALSE, e.content)
    ELSE EditOutcome("File edited successfully: ", TRUE,
                     replaceFirst(e.content, e.target, e.replacement))

\* The calls of edit_file: {path, target, replacement} against a file.
EditInputs ==
    [ exists : BOOLEAN,
      content : SeqsUpTo(EditChars, MaxText),
      target : SeqsUpTo(EditChars, MaxTarget) \ {<<>>},
      replacement : {<<>>, <<"b">>, <<"a", "a">>} ]

InitEdit ==
    /\ InitIdle
    /\ \E e \in EditInputs :
          /\ (~e.exists => e.content = <<>>)
          /\ probe = ProbeOf("editFileImpl", e)

ApplyEditFile ==
    /\ probe.fn = "editFileImpl"
    /\ ~probe.done
    /\ probe' = [probe EXCEPT !.out = editFileText(probe.in), !.done = TRUE]
    /\ UNCHANGED <<globalRl, maxIterations, autoApprove, repl, ctrl, callState,
                   prompt, counters, messages, fs, stubRest>>

SpecEdit == InitEdit /\ [][ApplyEditFile]_vars

\* edit_file has returned for a file that exists.
Edited == probe.fn = "editFileImpl" /\ probe.done /\ probe.in.exists

\* The target occurs in the text (stated apart from the code's own test).
C24_Occurs(content, target) ==
    \E i \in 1..Len(content) :
        /\ i + Len(target) - 1 <= Len(content)
        /\ \A k \in 1..Len(target) : content[i + k - 1] = target[k]

\* C24: edit_file on a file whose text does not contain the exact target
\* returns the error text and writes nothing: the file keeps its text.
C24_MissingTargetWritesNothing ==
    (Edited /\ ~C24_Occurs(probe.in.content, probe.in.target)) =>
        /\ probe.out.result = "Error: Target string not found in "
        /\ ~probe.out.wrote
        /\ probe.out.content = probe.in.content

\* An edit whose target is not in a non-empty text has returned.
C24_Witness ==
    /\ Edited
    /\ probe.in.content = <<"a", "b", "a">>
    /\ probe.in.target = <<"b", "b">>
    /\ probe.out.result = "Error: Target string not found in "

\* String.prototype.replaceAll: every occurrence, left to right, without
\* overlap.
RECURSIVE C25_ReplaceAll(_, _, _)
C25_ReplaceAll(content, target, replacement) ==
    IF Len(content) < Len(target) THEN content
    ELSE IF SubSeq(content, 1, Len(target)) = target
    THEN replacement \o C25_ReplaceAll(SubSeq(content, Len(target) + 1, Len(content)),
                                       target, replacement)
    ELSE <<Head(content)>> \o C25_ReplaceAll(Tail(content), target, replacement)

\* C25: edit_file on a file whose text contains the target one or more times
\* replaces all occurrences and writes the result back.
C25_ReplacesAllOccurrences ==
    (Edited /\ C24_Occurs(probe.in.content, probe.in.target)) =>
        /\ probe.out.wrote
        /\ probe.out.content =
              C25_ReplaceAll(probe.in.content, probe.in.target, probe.in.replacement)

\* ------------------------------------------------ list_directory on a tree

\* const maxEntries = 200, scaled to the size of the trees below.
maxEntries == 4

\* const maxDepth = args.recursive ? 3 : 1
maxDepthOf(args) == IF args.recursive THEN 3 ELSE 1

\* The trees hold one level more than a recursive listing descends.
TreeDepth == maxDepthOf([recursive |-> TRUE]) + 1

\* SKIP_DIRS
SKIP_DIRS ==
    { "node_modules", ".git", "__pycache__", ".next", "dist", ".cache",
      ".gemini", ".vscode", ".idea", "AppData", "Application Data",
      "Local Settings", "Desktop", "Documents", "Downloads", "Music",
      "Pictures", "Videos", "OneDrive", "Contacts", "Favorites",
      "Links", "Saved Games", "Searches", "PrintHood", "Recent",
      "SendTo", "Templates", "NetHood", "ntuser.dat", "NTUSER.DAT",
      "coverage", ".nyc_output", ".angular", ".npm", ".yarn",
      ".nuget", ".dotnet", ".cargo", "vendor", "target" }

\* entry.name.startsWith('ntuser'), for the names that occur.
startsWithNtuser(name) == name \in {"ntuser.dat", "ntuser.ini", "ntuser.dat.LOG1"}

\* SKIP_DIRS.has(entry.name) || entry.name.startsWith('ntuser')
SkipName(name) == name \in SKIP_DIRS \/ startsWithNtuser(name)

\* A directory entry (fs.Dirent) with what lies below it: a file, a directory
\* with its entries in ascending order of name, or a directory that readdir
\* fails on.
FileEntry(name) == [name |-> name, kind |-> "file", children |-> <<>>]
DirEntry(name, children) == [name |-> name, kind |-> "dir", children |-> children]
BadDirEntry(name) == [name |-> name, kind |-> "baddir", children |-> <<>>]

\* Dirent.isDirectory()
isDirectory(entry) == entry.kind # "file"

\* The contents a directory at `level` below the requested one can have: the
\* names a, b and dist, each absent, a file or a directory; b is the directory
\* that holds the next level.
RECURSIVE ListTrees(_)
ListTrees(level) ==
    IF level >= TreeDepth THEN {<<>>, <<FileEntry("a")>>}
    ELSE { a \o b \o d :
             a \in {<<>>, <<FileEntry("a")>>, <<DirEntry("a", <<>>)>>, <<BadDirEntry("a")>>},
             b \in {<<>>, <<FileEntry("b")>>}
                     \cup { <<DirEntry("b", c)>> : c \in ListTrees(level + 1) },
             d \in {<<>>, <<FileEntry("dist")>>,
                    <<DirEntry("dist", <<FileEntry("a")>>)>>} }

\* The requested directory: readable with its tree, or not readable.
ListRoots == { DirEntry(".", c) : c \in ListTrees(1) } \cup { BadDirEntry(".") }

\* The calls of list_directory: the tree, args.recursive, and the order in
\* which fs.readdir hands out the entries of a directory.
ListInputs ==
    [ root : ListRoots, recursive : BOOLEAN, order : {"ascending", "descending"} ]

Reverse(s) == [i \in 1..Len(s) |-> s[Len(s) + 1 - i]]

\* fs.readdir(dir, {withFileTypes: true})
readdir(dir, args) ==
    IF args.order = "descending" THEN Reverse(dir.children) ELSE dir.children

\* a.name.localeCompare(b.name), for the names of the trees.
NameOrder == <<"a", "b", "dist">>

localeCompare(x, y) ==
    LET rank(n) == CHOOSE i \in DOMAIN NameOrder : NameOrder[i] = n
    IN  IF rank(x) < rank(y) THEN -1 ELSE IF rank(x) > rank(y) THEN 1 ELSE 0

\* A comparator that looks at the names only.
entryCompareNamesOnly(a, b) == localeCompare(a.name, b.name)

\* The comparator of entries.sort: directories first, then by name.
entryCompare(a, b) ==
    IF isDirectory(a) /\ ~isDirectory(b) THEN -1
    ELSE IF ~isDirectory(a) /\ isDirectory(b) THEN 1
    ELSE localeCompare(a.name, b.name)

RECURSIVE insertEntry(_, _)
insertEntry(e, s) ==
    IF s = <<>> THEN <<e>>
    ELSE IF entryCompare(e, Head(s)) < 0 THEN <<e>> \o s
    ELSE <<Head(s)>> \o insertEntry(e, Tail(s))

\* Array.prototype.sort with entryCompare.
RECURSIVE sortEntries(_)
sortEntries(s) ==
    IF s = <<>> THEN <<>>
    ELSE insertEntry(s[Len(s)], sortEntries(SubSeq(s, 1, Len(s) - 1)))

\* One line of the listing: the prefix (two blanks per level below the
\* first), the entry's name, the directory marker '/', and what follows;
\* `path` is path.join(dir, entry.name), the entry the line was written for
\* (the directory being listed, for a notice or an error).
ListLine(indent, name, slash, tag, path) ==
    [indent |-> indent, name |-> name, slash |-> slash, tag |-> tag, path |-> path]

CappedTag == "... (capped at N entries)"

\* What listDir returns, with the entryCount it leaves.
Listing(results, entryCount) == [results |-> results, entryCount |-> entryCount]

\* A cap test that lets one more entry through.
AtCapOffByOne(entryCount) == entryCount > maxEntries

\* entryCount >= maxEntries
AtCap(entryCount) == entryCount >= maxEntries

\* depth > maxDepth
TooDeep(depth, args) == depth > maxDepthOf(args)

RECURSIVE listDir(_, _, _, _, _)
RECURSIVE listLoop(_, _, _, _, _)

\* listDir(dir, depth, prefix) with the entryCount it starts from; `path` is
\* the path of dir below the requested directory.
listDir(dir, depth, path, entryCount, args) ==
    IF TooDeep(depth, args) \/ AtCap(entryCount) THEN Listing(<<>>, entryCount)
    ELSE IF dir.kind = "baddir"
    THEN Listing(<<ListLine(depth - 1, "", FALSE, "[Error: ...]", path)>>, entryCount)
    ELSE listLoop(sortEntries(readdir(dir, args)), depth, path, entryCount, args)

\* for (const entry of sorted) { ... }, from the entry at the head of sorted.
listLoop(sorted, depth, path, entryCount, args) ==
    IF sorted = <<>> THEN Listing(<<>>, entryCount)
    ELSE IF AtCap(entryCount)
    THEN Listing(<<ListLine(depth - 1, "", FALSE, CappedTag, path)>>, entryCount)
    ELSE
        LET entry == Head(sorted)
            entryPath == Append(path, entry.name)
        IN  IF SkipName(entry.name)
            THEN LET rest == listLoop(Tail(sorted), depth, path, entryCount + 1, args)
                 IN  Listing(<<ListLine(depth - 1, entry.name, TRUE, "[skipped]", entryPath)>>
                                 \o rest.results, rest.entryCount)
            ELSE IF isDirectory(entry)
            THEN LET sub == IF args.recursive
                            THEN listDir(entry, depth + 1, entryPath, entryCount + 1, args)
                            ELSE Listing(<<>>, entryCount + 1)
                     rest == listLoop(Tail(sorted), depth, path, sub.entryCount, args)
                 IN  Listing(<<ListLine(depth - 1, entry.name, TRUE, "", entryPath)>>
                                 \o sub.results \o rest.results, rest.entryCount)
            ELSE LET rest == listLoop(Tail(sorted), depth, path, entryCount + 1, args)
                 IN  Listing(<<ListLine(depth - 1, entry.name, FALSE, "(size)", entryPath)>>
                                 \o rest.results, rest.entryCount)

\* const items = await listDir(dirPath, 1);
\* return items.join('\n') || '(empty directory)';
listDirectoryImpl(args) ==
    LET items == listDir(args.root, 1, <<>>, 0, args).results
    IN  IF items = <<>> THEN <<ListLine(0, "", FALSE, "(empty directory)", <<>>)>>
        ELSE items

InitList ==
    /\ InitIdle
    /\ \E i \in ListInputs : probe = ProbeOf("listDirectoryImpl", i)

ApplyListDirectory ==
    /\ probe.fn = "listDirectoryImpl"
    /\ ~probe.done
    /\ probe' = [probe EXCEPT !.out = listDirectoryImpl(probe.in), !.done = TRUE]
    /\ UNCHANGED <<globalRl, maxIterations, autoApprove, repl, ctrl, callState,
                   prompt, counters, messages, fs, stubRest>>

SpecList == InitList /\ [][ApplyListDirectory]_vars

\* list_directory has returned.
Listed == probe.fn = "listDirectoryImpl" /\ probe.done

\* The lines of the output that list an entry, and those that are the notice.
EntryLines == { i \in DOMAIN probe.out : probe.out[i].name # "" }
NoticeLines == { i \in DOMAIN probe.out : probe.out[i].tag = CappedTag }

\* The entry of the tree at a path below `dir` (a file named "" if none).
RECURSIVE EntryAt(_, _)
EntryAt(dir, path) ==
    IF path = <<>> THEN dir
    ELSE IF \E k \in DOMAIN dir.children : dir.children[k].name = Head(path)
    THEN EntryAt(dir.children[CHOOSE k \in DOMAIN dir.children :
                                  dir.children[k].name = Head(path)], Tail(path))
    ELSE FileEntry("")

\* The paths of the tree that a listing within `levels` levels can reach:
\* every entry of a directory that is reached, where the entries of a
\* deny-listed name are not reached.
RECURSIVE ListablePaths(_, _, _)
ListablePaths(dir, path, levels) ==
    IF levels = 0 THEN {}
    ELSE UNION { {Append(path, dir.children[k].name)}
                    \cup (IF SkipName(dir.children[k].name) THEN {}
                          ELSE ListablePaths(dir.children[k],
                                             Append(path, dir.children[k].name),
                                             levels - 1))
                 : k \in DOMAIN dir.children }

C26_Listable ==
    Cardinality(ListablePaths(probe.in.root, <<>>, maxDepthOf(probe.in)))

\* C26: list_directory never lists more than maxEntries entries in one call,
\* counted over the whole traversal with the skipped entries, and lists
\* exactly maxEntries whenever the tree holds more listable entries than that
\* within the depth bound.
C26_EntryCap ==
    Listed =>
        /\ Cardinality(EntryLines) <= maxEntries
        /\ C26_Listable > maxEntries => Cardinality(EntryLines) = maxEntries

\* A recursive listing of a tree with more listable entries than the cap,
\* one of them skipped, has stopped at the cap.
C26_Witness ==
    /\ Listed
    /\ probe.in.recursive
    /\ C26_Listable > maxEntries + 1
    /\ Cardinality(EntryLines) = maxEntries
    /\ \E i \in EntryLines : probe.out[i].tag = "[skipped]"

\* C27: whenever list_directory stops at the cap while entries remain
\* unlisted, its output holds exactly one capped-notice line.
C27_ExactlyOneCappedNotice ==
    (Listed /\ C26_Listable > maxEntries) => Cardinality(NoticeLines) = 1

\* C28: a deny-listed directory is listed once, marked [skipped], and nothing
\* below it is listed; only directories are shown with the directory marker
\* and the [skipped] tag.
C28_SkippedAreDirectories ==
    Listed =>
        /\ \A i \in EntryLines :
              /\ SkipName(probe.out[i].name) <=> probe.out[i].tag = "[skipped]"
              /\ \A k \in 1..(Len(probe.out[i].path) - 1) : ~SkipName(probe.out[i].path[k])
              /\ \A j \in EntryLines : probe.out[j].path = probe.out[i].path => j = i
        /\ \A i \in EntryLines :
              (probe.out[i].slash \/ probe.out[i].tag = "[skipped]") =>
                  isDirectory(EntryAt(probe.in.root, probe.out[i].path))

\* Lines i and j list entries of the same directory.
C29_Siblings(i, j) ==
    /\ Len(probe.out[i].path) = Len(probe.out[j].path)
    /\ SubSeq(probe.out[i].path, 1, Len(probe.out[i].path) - 1)
          = SubSeq(probe.out[j].path, 1, Len(probe.out[j].path) - 1)

\* C29: list_directory lists no entry deeper than 3 levels below the
\* requested directory when recursive and none deeper than 1 level when not;
\* within each level the directories come before the files and each group is
\* in alphabetical order.
C29_DepthAndOrder ==
    Listed =>
        /\ \A i \in EntryLines :
              /\ Len(probe.out[i].path) <= (IF probe.in.recursive THEN 3 ELSE 1)
              /\ probe.out[i].indent = Len(probe.out[i].path) - 1
        /\ \A i, j \in EntryLines :
              (i < j /\ C29_Siblings(i, j)) =>
                 LET ei == EntryAt(probe.in.root, probe.out[i].path)
                     ej == EntryAt(probe.in.root, probe.out[j].path)
                 IN  /\ ~(ei.kind = "file" /\ ej.kind # "file")
                     /\ (ei.kind = "file" <=> ej.kind = "file") =>
                           localeCompare(ei.name, ej.name) < 0

\* A recursive listing, from entries read in descending order, of a tree with
\* an entry at level 4 has listed a directory and then a file at level 3.
C29_Witness ==
    /\ Listed
    /\ probe.in.recursive
    /\ probe.in.order = "descending"
    /\ EntryAt(probe.in.root, <<"b", "b", "b", "a">>).name = "a"
    /\ \E i, j \in EntryLines :
          /\ i < j
          /\ probe.out[i].path = <<"b", "b", "b">> /\ probe.out[i].slash
          /\ probe.out[j].path = <<"b", "b", "a">> /\ ~probe.out[j].slash

\* --------------------------------------------------- search_files on a tree

\* const maxResults = 30, scaled to the size of the trees below.
maxResults == 3

\* if (depth > 5 || ...) return;
WalkMaxDepth == 5

\* The lines of the files: one that holds the pattern, one that does not.
LineA == <<" ", "a">>
LineB == <<"b">>

\* args.pattern
SearchPattern == <<"a">>

\* A file with its lines, and a directory with its entries in readdir order.
SearchFile(name, ext, lines) ==
    [name |-> name, ext |-> ext, kind |-> "file", lines |-> lines, children |-> <<>>]
SearchDir(name, children) ==
    [name |-> name, ext |-> "", kind |-> "dir", lines |-> <<>>, children |-> children]

\* The contents of a directory at walkDir depth `depth`: a file f.js (absent,
\* without a match, or with two matching lines) and the directory d that
\* holds the next depth, down to one depth more than walkDir reads.
RECURSIVE SearchTrees(_)
SearchTrees(depth) ==
    LET files == {<<>>, <<SearchFile("f.js", ".js", <<LineB>>)>>,
                  <<SearchFile("f.js", ".js", <<LineA, LineB, LineA>>)>>}
    IN  IF depth > WalkMaxDepth THEN files
        ELSE { f \o d : f \in files,
                        d \in {<<>>} \cup { <<SearchDir("d", c)>> : c \in SearchTrees(depth + 1) } }

\* The calls of search_files: the tree below the search directory, whether it
\* also holds .git/f.js and g.md (one matching line each), and
\* args.file_pattern (absent, or '*.js').
SearchInputs ==
    { [ root |-> SearchDir(".",
                    (IF git THEN <<SearchDir(".git", <<SearchFile("f.js", ".js", <<LineA>>)>>)>>
                     ELSE <<>>)
                    \o (IF md THEN <<SearchFile("g.md", ".md", <<LineA>>)>> ELSE <<>>)
                    \o c),
        file_pattern |-> fp ]
      : git \in BOOLEAN, md \in BOOLEAN, c \in SearchTrees(0), fp \in {"", "*.js"} }

\* One line of the answer: a match `relPath:line: text`, the capped notice or
\* the sentinel.
MatchLine(path, lineNo, text) ==
    [tag |-> "match", path |-> path, lineNo |-> lineNo, text |-> text]
CappedResultsLine ==
    [tag |-> "... (capped at N results)", path |-> <<>>, lineNo |-> 0, text |-> <<>>]
NoMatchesLine ==
    [tag |-> "No matches found.", path |-> <<>>, lineNo |-> 0, text |-> <<>>]

\* A test that lets one more result through.
ResultsFullOffByOne(results) == Len(results) > maxResults

\* results.length >= maxResults
ResultsFull(results) == Len(results) >= maxResults

\* searchInFile(filePath), from line i of the file, with the results so far.
RECURSIVE searchInFile(_, _, _, _)
searchInFile(file, path, i, results) ==
    IF i > Len(file.lines) THEN results
    ELSE IF includesText(file.lines[i], SearchPattern)
    THEN LET found == Append(results, MatchLine(path, i, trim(file.lines[i])))
         IN  IF ResultsFull(found) THEN found
             ELSE searchInFile(file, path, i + 1, found)
    ELSE searchInFile(file, path, i + 1, results)

\* args.file_pattern.replace('*', '')
patternSuffix(fp) == IF fp = "*.js" THEN ".js" ELSE fp

\* if (!entry.name.endsWith(pattern) && ext !== pattern) continue;
FilteredOut(entry, args) ==
    args.file_pattern # "" /\ entry.ext # patternSuffix(args.file_pattern)

\* The names walkDir passes over.
WalkSkips == {"node_modules", ".git", "__pycache__", ".next", "dist"}

RECURSIVE walkDir(_, _, _, _, _)
RECURSIVE walkLoop(_, _, _, _, _)

\* walkDir(dir, depth) with the results so far; returns the results after it.
walkDir(dir, depth, path, results, args) ==
    IF depth > WalkMaxDepth \/ ResultsFull(results) THEN results
    ELSE walkLoop(dir.children, depth, path, results, args)

\* for (const entry of entries) { ... }, from the entry at the head.
walkLoop(entries, depth, path, results, args) ==
    IF entries = <<>> THEN results
    ELSE IF ResultsFull(results) THEN results
    ELSE LET entry == Head(entries)
             fullPath == Append(path, entry.name)
         IN  IF entry.name \in WalkSkips
             THEN walkLoop(Tail(entries), depth, path, results, args)
             ELSE IF entry.kind = "dir"
             THEN walkLoop(Tail(entries), depth, path,
                           walkDir(entry, depth + 1, fullPath, results, args), args)
             ELSE IF FilteredOut(entry, args)
             THEN walkLoop(Tail(entries), depth, path, results, args)
             ELSE walkLoop(Tail(entries), depth, path,
                           searchInFile(entry, fullPath, 1, results), args)

searchFilesImpl(args) ==
    LET results == walkDir(args.root, 0, <<>>, <<>>, args)
    IN  IF Len(results) > 0
        THEN results \o (IF ResultsFull(results) THEN <<CappedResultsLine>> ELSE <<>>)
        ELSE <<NoMatchesLine>>

InitSearch ==
    /\ InitIdle
    /\ \E i \in SearchInputs : probe = ProbeOf("searchFilesImpl", i)

ApplySearchFiles ==
    /\ probe.fn = "searchFilesImpl"
    /\ ~probe.done
    /\ probe' = [probe EXCEPT !.out = searchFilesImpl(probe.in), !.done = TRUE]
    /\ UNCHANGED <<globalRl, maxIterations, autoApprove, repl, ctrl, callState,
                   prompt, counters, messages, fs, stubRest>>

SpecSearch == InitSearch /\ [][ApplySearchFiles]_vars

\* search_files has returned.
Searched == probe.fn = "searchFilesImpl" /\ probe.done

\* The lines of the answer that report a match.
MatchLines == { i \in DOMAIN probe.out : probe.out[i].tag = "match" }

\* The matching lines, as <<path, line number>>, of the files that a scan
\* reading directories down to `levels` more levels reaches.
RECURSIVE C30_Matching(_, _, _, _)
C30_Matching(dir, path, levels, fp) ==
    UNION { IF dir.children[k].kind = "file"
            THEN (IF fp = "" \/ dir.children[k].ext = ".js"
                  THEN { <<Append(path, dir.children[k].name), n>> :
                           n \in { n \in DOMAIN dir.children[k].lines :
                                     \E c \in DOMAIN dir.children[k].lines[n] :
                                         dir.children[k].lines[n][c] = "a" } }
                  ELSE {})
            ELSE IF levels = 0 \/ dir.children[k].name = ".git" THEN {}
            ELSE C30_Matching(dir.children[k], Append(path, dir.children[k].name),
                              levels - 1, fp)
          : k \in DOMAIN dir.children }

C30_Total == Cardinality(C30_Matching(probe.in.root, <<>>, 5, probe.in.file_pattern))

readLimit == 3

\* The longest file text read.
MaxFileLen == 5

\* content.split('\n'): the pieces between the newlines; a text without a
\* newline, the empty text too, is one piece.
RECURSIVE splitLines(_)
splitLines(content) ==
    IF \A i \in DOMAIN content : content[i] # "\n" THEN <<content>>
    ELSE LET i == CHOOSE i \in DOMAIN content :
                     content[i] = "\n" /\ \A j \in 1..(i - 1) : content[j] # "\n"
         IN  <<SubSeq(content, 1, i - 1)>>
                 \o splitLines(SubSeq(content, i + 1, Len(content)))

\* lines.join('\n')
RECURSIVE joinLines(_)
joinLines(lines) ==
    IF lines = <<>> THEN <<>>
    ELSE IF Len(lines) = 1 THEN lines[1]
    ELSE lines[1] \o <<"\n">> \o joinLines(Tail(lines))

\* A test that truncates a file of exactly readLimit lines too.
OverLimitFromLimit(lines) == Len(lines) >= readLimit

\* lines.length > 500
OverLimit(lines) == Len(lines) > readLimit

\* What readFileImpl returns: `[n lines]\n` + content, or
\* `[n lines — showing first 500]\n` + the first lines
\* + `\n\n... (truncated, k more lines)`, or the error text.
ReadResult(kind, count, body, more) ==
    [kind |-> kind, count |-> count, body |-> body, more |-> more]

\* readFileImpl on a file that exists with text e.content, or does not exist.
readFileText(e) ==
    IF ~e.exists THEN ReadResult("Error reading file: ", 0, <<>>, 0)
    ELSE LET lines == splitLines(e.content)
         IN  IF OverLimit(lines)
             THEN ReadResult("[n lines - showing first]", Len(lines),
                             joinLines(SubSeq(lines, 1, readLimit)),
                             Len(lines) - readLimit)
             ELSE ReadResult("[n lines]", Len(lines), e.content, 0)

InitRead ==
    /\ InitIdle
    /\ \E x \in BOOLEAN, c \in SeqsUpTo({"a", "\n"}, MaxFileLen) :
          /\ (~x => c = <<>>)
          /\ probe = ProbeOf("readFileImpl", [exists |-> x, content |-> c])

ApplyReadFile ==
    /\ probe.fn = "readFileImpl"
    /\ ~probe.done
    /\ probe' = [probe EXCEPT !.out = readFileText(probe.in), !.done = TRUE]
    /\ UNCHANGED <<globalRl, maxIterations, autoApprove, repl, ctrl, callState,
                   prompt, counters, messages, fs, stubRest>>

SpecRead == InitRead /\ [][ApplyReadFile]_vars

\* The number of lines of the file read: one more than its newlines.
C31_Lines == Cardinality({i \in DOMAIN probe.in.content : probe.in.content[i] = "\n"}) + 1

\* The text up to, and without, the k-th newline.
C31_FirstLines(content, k) ==
    LET ends == { i \in DOMAIN content :
                    /\ content[i] = "\n"
                    /\ Cardinality({j \in 1..i : content[j] = "\n"}) = k }
    IN  IF ends = {} THEN content
        ELSE SubSeq(content, 1, (CHOOSE i \in ends : TRUE) - 1)

\* C31: read_file on a file of n lines returns the whole content headed by
\* the line count n when n is within the limit, and beyond the limit returns
\* exactly the first `limit` lines followed by the marker that n - limit more
\* lines were truncated: nothing is dropped without the marker.
C31_TruncationIsMarked ==
    (probe.fn = "readFileImpl" /\ probe.done /\ probe.in.exists) =>
        /\ probe.out.count = C31_Lines
        /\ C31_Lines <= readLimit =>
              /\ probe.out.kind = "[n lines]"
              /\ probe.out.body = probe.in.content
              /\ probe.out.more = 0
        /\ C31_Lines > readLimit =>
              /\ probe.out.kind = "[n lines - showing first]"
              /\ probe.out.body = C31_FirstLines(probe.in.content, readLimit)
              /\ probe.out.more = C31_Lines - readLimit
        /\ probe.out.body # probe.in.content => probe.out.more > 0

\* A file of two lines more than the limit has been read.
C31_Witness ==
    /\ probe.fn = "readFileImpl" /\ probe.done /\ probe.in.exists
    /\ C31_Lines = readLimit + 2
    /\ probe.out.more = 2
    /\ probe.in.content[1] = "a"

\* ------------------------------------------- the commands and the credential

\* The commands whose action starts with initPuter: chat (singleChat),
\* interactive (interactiveChat), code (startAgentMode), do (agentCommand).
ModelCommands == {"chat", "interactive", "code", "do"}

\* process.env.PUTER_TOKEN: not set, or set to a text (the empty text too).
EnvValue(isSet, text) == [isSet |-> isSet, text |-> text]
EnvValues ==
    {EnvValue(FALSE, ""), EnvValue(TRUE, ""), EnvValue(TRUE, "env-token"),
     EnvValue(TRUE, "env-token-2")}

\* config.get('authToken'): '' by default, or the text saved by `auth`.
SavedValues == {"", "saved-token", "saved-token-2"}

\* A lookup that prefers the saved token.
getTokenSavedFirst(env, saved) ==
    IF saved # "" THEN saved
    ELSE IF env.isSet /\ env.text # "" THEN env.text
    ELSE ""

\* process.env.PUTER_TOKEN || config.get('authToken') || ''
getToken(env, saved) ==
    IF env.isSet /\ env.text # "" THEN env.text
    ELSE IF saved # "" THEN saved
    ELSE ""

\* The run of one command: where it is, the token init() was given, the
\* model calls made, the 'Error: ...' lines printed, and the exit status
\* (-1 while the process lives).
CommandRun(at, token, calls, errors, status) ==
    [stage |-> at, token |-> token, calls |-> calls, errors |-> errors,
     status |-> status]

InitAuth ==
    /\ InitIdle
    /\ \E c \in ModelCommands, e \in EnvValues, s \in SavedValues :
          probe = [fn |-> "command",
                   in |-> [command |-> c, env |-> e, saved |-> s],
                   out |-> CommandRun("start", "", 0, 0, -1),
                   done |-> FALSE]

\* const puter = await initPuter(): the first statement of singleChat,
\* interactiveChat, startAgentMode and agentCommand.
initPuter ==
    /\ probe.fn = "command"
    /\ probe.out.stage = "start"
    /\ LET token == getToken(probe.in.env, probe.in.saved)
       IN  probe' = [probe EXCEPT !.out =
                        IF token = "" THEN CommandRun("threw", "", 0, 0, -1)
                        ELSE CommandRun("ready", token, 0, 0, -1)]
    /\ UNCHANGED <<globalRl, maxIterations, autoApprove, repl, ctrl, callState,
                   prompt, counters, messages, fs, stubRest>>

\* catch (err) { console.error(`Error: ${err.message}`); process.exit(1); }
CommandCatch ==
    /\ probe.fn = "command"
    /\ probe.out.stage = "threw"
    /\ probe' = [probe EXCEPT
                    !.out = CommandRun("exited", "", probe.out.calls,
                                       probe.out.errors + 1, 1),
                    !.done = TRUE]
    /\ UNCHANGED <<globalRl, maxIterations, autoApprove, repl, ctrl, callState,
                   prompt, counters, messages, fs, stubRest>>

\* The first puter.ai.chat of the command, with the client init(token) made.
CommandCallsModel ==
    /\ probe.fn = "command"
    /\ probe.out.stage = "ready"
    /\ probe' = [probe EXCEPT
                    !.out = CommandRun("called", probe.out.token,
                                       probe.out.calls + 1, probe.out.errors, -1),
                    !.done = TRUE]
    /\ UNCHANGED <<globalRl, maxIterations, autoApprove, repl, ctrl, callState,
                   prompt, counters, messages, fs, stubRest>>

NextAuth == initPuter \/ CommandCatch \/ CommandCallsModel

SpecAuth == InitAuth /\ [][NextAuth]_vars

\* Neither an environment token nor a saved token.
C32_NoCredential ==
    /\ ~(probe.in.env.isSet /\ probe.in.env.text # "")
    /\ probe.in.saved = ""

\* C32: a command that needs the model, run without a credential, makes no
\* model call, reports the error once and exits with a non-zero status; with
\* both an environment token and a saved token the environment token is the
\* one used.
C32_MissingCredentialIsFatal ==
    probe.fn = "command" =>
        /\ C32_NoCredential =>
              /\ probe.out.calls = 0
              /\ probe.out.stage \in {"start", "threw", "exited"}
              /\ probe.out.errors <= 1
              /\ probe.done => (probe.out.errors = 1 /\ probe.out.status > 0)
        /\ ~C32_NoCredential => (probe.out.errors = 0 /\ probe.out.status = -1)
        /\ (probe.in.env.isSet /\ probe.in.env.text # "" /\ probe.in.saved # ""
            /\ probe.out.stage \in {"ready", "called"}) =>
              probe.out.token = probe.in.env.text

\* `code` has exited without a credential, PUTER_TOKEN being set to ''.
C32_Witness ==
    /\ probe.fn = "command"
    /\ probe.in.command = "code"
    /\ probe.in.env = EnvValue(TRUE, "")
    /\ probe.in.saved = ""
    /\ probe.out = CommandRun("exited", "", 0, 1, 1)

\* ------------------------------------------------ bounded iteration, warning

\* C33: in every run of runAgentLoop, whatever the replies, tool outcomes,
\* rate-limit errors and other errors, the number of model calls made is at
\* most maxIterations, and the run terminates.
C33_BoundedModelCallsAndTermination ==
    /\ [](modelCalls <= maxIterations /\ iterations <= maxIterations)
    /\ <>(pc = "done")

\* A run of the longest kind has ended after a rate-limited call, a tool call
\* and a final answer used up its iterations.
C33_Witness ==
    /\ pc = "done"
    /\ maxIterations = MaxLongIter
    /\ modelCalls = maxIterations
    /\ \E i, j, k \in DOMAIN replyLog :
          /\ replyLog[i].kind = "rate_limit"
          /\ replyLog[j].kind = "calls"
          /\ replyLog[k].kind = "final"

\* C34: the max-iterations warning is emitted if and only if the loop stopped
\* because the iteration cap was reached: a run that ends with a terminal
\* provider error emits no warning, also when the error comes on iteration
\* number maxIterations, and a run that the cap stopped after a tool call
\* emits it.
C34_WarningOnlyWhenCapStopsTheLoop ==
    (pc = "done" /\ Len(replyLog) > 0) =>
        /\ replyLog[Len(replyLog)].kind = "error" => ~warned
        /\ replyLog[Len(replyLog)].kind = "calls" => warned

\* ------------------------------------------------ normalization, read again

C36_LoopEnds ==
    /\ globalRl
    /\ C14_LoopActive
    /\ ~C14_LoopActive'
    /\ linesHandled' = linesHandled

\* A task line is handled while no loop is active.
C36_TaskWhileIdle ==
    /\ TaskLine
    /\ ~C14_LoopActive

C36_Step ==
    /\ C36_LoopEnds => (~isAgentRunning' /\ loopPrompts' = loopPrompts + 1)
    /\ C36_TaskWhileIdle =>
          /\ C14_UserTurns(messages') = C14_UserTurns(messages) + 1
          /\ replyLog' = <<>>
          /\ isAgentRunning'
          /\ modelCalls' = 1

\* C36: in an interactive session that has not been ended, isAgentRunning is
\* true exactly while a runAgentLoop invocation is active; the step that ends a
\* loop (after a final answer, at the iteration cap, on a provider error or by
\* an exception that leaves the loop) resets the flag and shows the prompt,
\* and a task line handled while no loop is active starts a loop.
C36_FlagFollowsTheLoop ==
    /\ [](globalRl /\ pc # "exited" => (isAgentRunning <=> C14_LoopActive))
    /\ [][C36_Step]_vars

\* A first loop has ended, the next task line has started a second loop, and
\* that one was left by an exception after which the process went on.
C36_Witness ==
    /\ globalRl
    /\ pc = "done"
    /\ ~isAgentRunning
    /\ loopPrompts = 2
    /\ Len(replyLog) > 0
    /\ replyLog[Len(replyLog)].kind = "escaped"
    /\ C14_UserTurns(messages) = 2

C37_Step ==
    /\ (globalRl /\ C14_LoopActive /\ pc' # "exited") =>
          /\ autoApprove' = autoApprove
          /\ loopModel' = loopModel
    /\ C36_TaskWhileIdle =>
          /\ autoApprove' = optionsAuto
          /\ loopModel' = currentModel

\* C37: while a loop is active no step changes the auto-approve setting or the
\* model name it was started with, whatever /auto and /model lines are
\* handled; a loop asks for permission according to its own setting; and the
\* loop the next task line starts takes the values set by then.
C37_LoopKeepsItsSettings ==
    /\ [](globalRl /\ pc = "tools" =>
             \A i \in DOMAIN stage : stage[i] = "prompt" => ~autoApprove)
    /\ [][C37_Step]_vars

\* A loop started without auto-approve is asking its question after /auto and
\* /model have been handled.
C37_Witness ==
    /\ globalRl
    /\ pc = "tools"
    /\ stage = <<"prompt">>
    /\ ~autoApprove
    /\ optionsAuto
    /\ loopModel = "claude-sonnet-4.6"
    /\ currentModel = "gpt-4o"

====
